---- MODULE Spec2Model ----
(***************************************************************************)
(* The query engine of the gateway (src/src/query_engine/mod.rs): one      *)
(* client request running execute_query / execute_deployment_query against *)
(* the published deployment directory, the indexer-selection engine and    *)
(* the resolver (block resolution, indexer transport, collateral broker).  *)
(*                                                                         *)
(* The selection engine (Indexers::select_indexer) and the resolver are    *)
(* collaborators whose code is not part of the query engine: every result  *)
(* their signatures allow is a nondeterministic choice.                    *)
(*                                                                         *)
(* FuzzSpec is the fuzz test of the selection engine                       *)
(* (src/indexer-selection/src/test.rs): Topology::gen, gen_request,        *)
(* select_indexers and Topology::check.                                    *)
(***************************************************************************)
EXTENDS Integers, Sequences, FiniteSets, TLC

\* ---------------------------------------------------------------- bounds
NumIndexers == 2
MaxRetryLimit == 2
QueryBudget == 1
NumBlocks == 1
MaxUnresolved == 2
MaxChainLen == 2

\* ------------------------------------------------------------ value sets
Addresses == 1..NumIndexers
Deployments == {"QmA", "QmB"}
Names == {"alpha", "beta"}
Blocks == 1..NumBlocks

\* Option<T>: None is the empty sequence, Some(x) the one-element sequence.
None == <<>>
Some(x) == <<x>>
IsSome(o) == Len(o) = 1
Unwrap(o) == o[1]

Range(s) == {s[i] : i \in 1..Len(s)}

SeqsUpTo(S, n) == UNION {[1..k -> S] : k \in 0..n}

\* Vectors of pairwise distinct addresses, the indexers of one deployment:
\* <<>>, <<1>>, <<1, 2>>, ..
IndexerVectors == {[i \in 1..n |-> i] : n \in 0..NumIndexers}

\* Subgraph::Name(String) | Subgraph::Deployment(SubgraphDeploymentID)
Subgraph ==
    [kind : {"Name"}, id : Names] \cup [kind : {"Deployment"}, id : Deployments]

\* ClientQuery, reduced to the fields execute_query reads; api_key.deployments
\* is only tested with is_empty and contains, so it is kept as a set.
ClientQuery == [subgraph : Subgraph, api_key_deployments : {{}, {"QmB"}}]

\* UnresolvedBlock::WithHash(Bytes32) | UnresolvedBlock::WithNumber(u64).
\* Block b of the chain has number b and hash b.
UnresolvedBlock == [kind : {"WithHash", "WithNumber"}, block : Blocks]

\* BlockHead { block: BlockPointer { number, hash }, .. }
BlockHead == [number : Blocks, hash : Blocks]
ChainHeads == {h \in BlockHead : h.number = h.hash}

\* The message of the source, without its backquotes (not string characters
\* here).
indexer_behind_err ==
    "Failed to decode block.hash value: no block with that hash found"

Messages == {indexer_behind_err, "other error"}

\* IndexerResponse.graphql_response, by what serde_json makes of it: a body
\* that is no GraphQL response envelope, or an envelope whose errors field is
\* absent (None) or a list of messages.
GraphqlResponse ==
    {[decodable |-> FALSE, errors |-> None]}
        \cup {[decodable |-> TRUE, errors |-> None]}
        \cup {[decodable |-> TRUE, errors |-> Some(e)] : e \in SUBSET Messages}

\* Result<IndexerResponse, Box<dyn Error>> of Resolver::query_indexer
QueryIndexerResult ==
    {[ok |-> FALSE, response |-> None]}
        \cup {[ok |-> TRUE, response |-> Some(r)] : r \in GraphqlResponse}

\* IndexerQuery, reduced to the fields the loop reads.
IndexerQuery ==
    [indexer : Addresses, fee : 0..QueryBudget, low_collateral_warning : BOOLEAN]

\* Result<QueryResponse, QueryEngineError>
Ok(q, r) ==
    [ok |-> TRUE, error |-> "", unresolved |-> <<>>, query |-> Some(q),
     response |-> Some(r)]
Err(e) ==
    [ok |-> FALSE, error |-> e, unresolved |-> <<>>, query |-> None,
     response |-> None]
ErrMissingBlocks(u) ==
    [ok |-> FALSE, error |-> "MissingBlocks", unresolved |-> u, query |-> None,
     response |-> None]

\* ----------------------------------------------------------------- state
VARIABLES
    config,               \* Config: indexer_selection_retry_limit, query_budget
    query,                \* the ClientQuery of the request
    current_deployments,  \* Eventual<Ptr<HashMap<String, SubgraphDeploymentID>>>
    deployment_indexers,  \* Eventual<Ptr<HashMap<SubgraphDeploymentID, Vector<Address>>>>
    pc,                   \* where the request's task stands
    deployment,           \* Option: the deployment execute_query resolved
    indexers,             \* the local candidate vector of execute_deployment_query
    round,                \* iterations of the retry loop started so far
    selection_result,     \* Option: what select_indexer returned in this round
    indexer_query,        \* Option: the IndexerQuery of the current round
    indexer_result,       \* Option: what query_indexer returned in this round
    unresolved,           \* the blocks handed to resolve_blocks
    requests,             \* the calls of Resolver::query_indexer, in order
    block_requests,       \* the number of calls of Resolver::resolve_blocks
    observations,         \* the observe_* calls on Indexers, in order
    transfers,            \* spawned create_transfer tasks still running
    result,               \* Option: what execute_query returned
    fuzz_pc,              \* where the fuzz test of the selection engine stands
    topology,             \* Option: the Topology of the iteration
    request,              \* Option: the Request of the iteration
    selection,            \* Option: what select_indexers returned
    checked,              \* Option: what Topology::check returned
    decimal,              \* a UDecimal<P> parsed and rendered (prelude/decimal.rs)
    ipfs,                 \* the IPFS client and its cat calls (ipfs.rs)
    actor,                \* the update queue, the actor and a snapshot reader
    scenario,             \* one select_indexers call on given utilities
    subscriptions,        \* the subscriptions poller and its Eventual
    telemetry             \* an ISAScoringError record built (kafka_client.rs)

vars ==
    <<config, query, current_deployments, deployment_indexers, pc, deployment,
      indexers, round, selection_result, indexer_query, indexer_result,
      unresolved, requests, block_requests, observations, transfers, result,
      fuzz_pc, topology, request, selection, checked,
      decimal, ipfs, actor, scenario, subscriptions, telemetry>>

\* The state of the fuzz test of the selection engine.
fuzz_vars == <<fuzz_pc, topology, request, selection, checked>>

\* No fuzz test running.
FuzzIdle ==
    /\ fuzz_pc = "idle"
    /\ topology = None
    /\ request = None
    /\ selection = None
    /\ checked = None

\* The components that run apart from the query engine and the fuzz test.
component_vars == <<decimal, ipfs, actor, scenario, subscriptions, telemetry>>

\* No use of a component.
DecimalIdle == decimal = [pc |-> "idle"]
IpfsIdle == ipfs = [pc |-> "idle"]
ActorIdle == actor = [pc |-> "idle"]
ScenarioIdle == scenario = [pc |-> "idle"]
SubscriptionsIdle == subscriptions = [pc |-> "idle"]
TelemetryIdle == telemetry = [pc |-> "idle"]

\* What the request leaves alone in every step.
inputs ==
    <<config, query, current_deployments, deployment_indexers, fuzz_vars,
      component_vars>>

\* The values the directory can hold: no value yet, or a map. The published
\* maps name "alpha" at most, and list indexers for "QmA" at most.
CurrentDeploymentsValues ==
    {None, Some([n \in {"alpha"} |-> "QmA"])}

DeploymentIndexersValues ==
    {None} \cup {Some([d \in {"QmA"} |-> v]) : v \in IndexerVectors}

\* Inputs::new and QueryEngine::new, then a request arriving.
Init ==
    /\ config \in [indexer_selection_retry_limit : 0..MaxRetryLimit,
                   query_budget : {QueryBudget}]
    /\ query \in ClientQuery
    /\ current_deployments \in CurrentDeploymentsValues
    /\ deployment_indexers \in DeploymentIndexersValues
    /\ pc = "execute_query"
    /\ deployment = None
    /\ indexers = <<>>
    /\ round = 0
    /\ selection_result = None
    /\ indexer_query = None
    /\ indexer_result = None
    /\ unresolved = <<>>
    /\ requests = <<>>
    /\ block_requests = 0
    /\ observations = <<>>
    /\ transfers = 0
    /\ result = None
    /\ FuzzIdle
    /\ SubscriptionsIdle
    /\ TelemetryIdle
    /\ DecimalIdle
    /\ IpfsIdle
    /\ ActorIdle
    /\ ScenarioIdle

\* --------------------------------------------------------- execute_query
\* value_immediate().and_then(|map| map.get(name).cloned())
Lookup(eventual, key) ==
    IF IsSome(eventual) /\ key \in DOMAIN Unwrap(eventual)
    THEN Some(Unwrap(eventual)[key])
    ELSE None

\* ResolveDeployment with unwrap_or_default in the place of ok_or_else(..)?.
ResolveDeploymentOrDefault(subgraph, directory) ==
    IF subgraph.kind = "Deployment" THEN Some(subgraph.id)
    ELSE IF Lookup(directory, subgraph.id) = None THEN Some("QmA")
    ELSE Lookup(directory, subgraph.id)

\* let deployment = match &query.subgraph { .. }
ResolveDeployment(subgraph, directory) ==
    IF subgraph.kind = "Deployment" THEN Some(subgraph.id)
    ELSE Lookup(directory, subgraph.id)

\* Authorized without the is_empty test.
AuthorizedListed(api_key_deployments, d) == d \in api_key_deployments

\* !(!deployments.is_empty() && !deployments.contains(&deployment))
Authorized(api_key_deployments, d) ==
    ~(api_key_deployments # {} /\ d \notin api_key_deployments)

Return(r) ==
    /\ pc' = "done"
    /\ result' = Some(r)

\* execute_query up to the call of execute_deployment_query.
ExecuteQuery ==
    /\ pc = "execute_query"
    /\ LET d == ResolveDeployment(query.subgraph, current_deployments) IN
       IF ~IsSome(d) THEN
           /\ Return(Err("SubgraphNotFound"))
           /\ UNCHANGED deployment
       ELSE IF ~Authorized(query.api_key_deployments, Unwrap(d)) THEN
           /\ Return(Err("APIKeySubgraphNotAuthorized"))
           /\ UNCHANGED deployment
       ELSE
           /\ pc' = "execute_deployment_query"
           /\ deployment' = d
           /\ UNCHANGED result
    /\ UNCHANGED <<inputs, indexers, round, selection_result, indexer_query,
                   indexer_result, unresolved, requests, block_requests,
                   observations, transfers>>

\* ---------------------------------------------- execute_deployment_query
\* let mut indexers = ...value_immediate().and_then(..).unwrap_or_default()
CandidateIndexers(directory, d) ==
    LET v == Lookup(directory, d) IN IF IsSome(v) THEN Unwrap(v) ELSE <<>>

ExecuteDeploymentQuery ==
    /\ pc = "execute_deployment_query"
    /\ indexers' = CandidateIndexers(deployment_indexers, Unwrap(deployment))
    /\ pc' = "loop"
    /\ UNCHANGED <<inputs, deployment, round, selection_result, indexer_query,
                   indexer_result, unresolved, requests, block_requests,
                   observations, transfers, result>>

\* LoopHead with the range of the loop closed: 0..=limit.
LoopHeadInclusive ==
    /\ pc = "loop"
    /\ IF round <= config.indexer_selection_retry_limit THEN
           /\ round' = round + 1
           /\ selection_result' = None
           /\ indexer_result' = None
           /\ pc' = "select_indexer"
           /\ UNCHANGED result
       ELSE
           /\ Return(Err("NoIndexerSelected"))
           /\ UNCHANGED <<round, selection_result, indexer_result>>
    /\ UNCHANGED <<inputs, deployment, indexers, indexer_query, unresolved,
                   requests, block_requests, observations, transfers>>

\* LoopHead with the candidate list read again in every round.
LoopHeadRereads ==
    /\ pc = "loop"
    /\ IF round < config.indexer_selection_retry_limit THEN
           /\ round' = round + 1
           /\ selection_result' = None
           /\ indexer_result' = None
           /\ indexers' = CandidateIndexers(deployment_indexers, Unwrap(deployment))
           /\ pc' = "select_indexer"
           /\ UNCHANGED result
       ELSE
           /\ Return(Err("NoIndexerSelected"))
           /\ UNCHANGED <<round, selection_result, indexer_result, indexers>>
    /\ UNCHANGED <<inputs, deployment, indexer_query, unresolved,
                   requests, block_requests, observations, transfers>>

\* for _ in 0..self.config.indexer_selection_retry_limit { .. }
\* Err(NoIndexerSelected)
LoopHead ==
    /\ pc = "loop"
    /\ IF round < config.indexer_selection_retry_limit THEN
           /\ round' = round + 1
           /\ selection_result' = None
           /\ indexer_result' = None
           /\ pc' = "select_indexer"
           /\ UNCHANGED result
       ELSE
           /\ Return(Err("NoIndexerSelected"))
           /\ UNCHANGED <<round, selection_result, indexer_result>>
    /\ UNCHANGED <<inputs, deployment, indexers, indexer_query, unresolved,
                   requests, block_requests, observations, transfers>>

\* Indexers::select_indexer(config, network, deployment, indexers, query,
\* variables, budget): Result<Option<IndexerQuery>, SelectionError>. The
\* engine picks among the candidates it is handed, at a fee within the budget
\* it is handed, or reports why it picked none.
SelectionErrors ==
    {"MissingNetworkParams", "BadIndexer", "InsufficientCollateral", "BadInput"}

UnresolvedLists ==
    {u \in SeqsUpTo(UnresolvedBlock, MaxUnresolved) : Len(u) > 0}

SelectIndexerResults(candidates, budget) ==
    {[kind |-> "Some", query |-> Some(q), unresolved |-> <<>>] :
        q \in {x \in IndexerQuery :
                  x.indexer \in Range(candidates) /\ x.fee <= budget}}
        \cup {[kind |-> k, query |-> None, unresolved |-> <<>>] :
                  k \in {"None"} \cup SelectionErrors}
        \cup {[kind |-> "MissingBlocks", query |-> None, unresolved |-> u] :
                  u \in UnresolvedLists}

\* The budget argument of the select_indexer call of each round.
SelectionBudget == config.query_budget

\* SelectionFailure with the results of its two arms exchanged.
SelectionFailureSwapped(kind) ==
    IF kind = "BadInput" THEN Err("NoIndexerSelected") ELSE Err("MalformedQuery")

\* SelectionFailure with BadInput under the arm of the other errors.
SelectionFailureUniform(kind) == Err("NoIndexerSelected")

\* Ok(None) | Err(MissingNetworkParams) | Err(BadIndexer(_))
\*     | Err(InsufficientCollateral(_, _)) => return Err(NoIndexerSelected)
\* Err(BadInput) => return Err(MalformedQuery)
SelectionFailure(kind) ==
    IF kind = "BadInput" THEN Err("MalformedQuery") ELSE Err("NoIndexerSelected")

\* One round from the select_indexer call to the query_indexer call: the match
\* on the selection result, the create_transfer task spawned on a low
\* collateral warning, and the indexer request sent.
SelectIndexer ==
    /\ pc = "select_indexer"
    /\ \E r \in SelectIndexerResults(indexers, SelectionBudget) :
          /\ selection_result' = Some(r.kind)
          /\ IF r.kind = "Some" THEN
                 LET q == Unwrap(r.query) IN
                 /\ indexer_query' = Some(q)
                 /\ transfers' =
                       IF q.low_collateral_warning THEN transfers + 1 ELSE transfers
                 /\ requests' =
                       Append(requests, [indexer |-> q.indexer, fee |-> q.fee])
                 /\ pc' = "query_indexer"
                 /\ UNCHANGED <<indexer_result, unresolved, block_requests, result>>
             ELSE IF r.kind = "MissingBlocks" THEN
                 /\ unresolved' = r.unresolved
                 /\ block_requests' = block_requests + 1
                 /\ pc' = "resolve_blocks"
                 /\ UNCHANGED <<indexer_query, indexer_result, transfers, requests,
                                result>>
             ELSE
                 /\ Return(SelectionFailure(r.kind))
                 /\ UNCHANGED <<indexer_query, indexer_result, transfers, requests,
                                unresolved, block_requests>>
    /\ UNCHANGED <<inputs, deployment, indexers, round, observations>>

\* CreateTransfer with the error of create_transfer returned to the request.
CreateTransferPropagated ==
    /\ transfers > 0
    /\ \E transfer_ok \in BOOLEAN :
          /\ transfers' = transfers - 1
          /\ IF transfer_ok THEN UNCHANGED <<pc, result>>
             ELSE Return(Err("NoIndexerSelected"))
    /\ UNCHANGED <<inputs, deployment, indexers, round, selection_result,
                   indexer_query, indexer_result, unresolved, requests,
                   block_requests, observations>>

\* The spawned task: resolver.create_transfer(..).await, its error only logged.
CreateTransfer ==
    /\ transfers > 0
    /\ \E transfer_ok \in BOOLEAN : transfers' = transfers - 1
    /\ UNCHANGED <<inputs, pc, deployment, indexers, round, selection_result,
                   indexer_query, indexer_result, unresolved, requests,
                   block_requests, observations, result>>

\* ----------------------------------------------------------- resolve_blocks
\* unresolved.iter().position(|b| match b { WithHash(h) => h == head.block.hash,
\*                                         WithNumber(n) => n == head.block.number })
\* 0 stands for None.
Matches(b, head) ==
    IF b.kind = "WithHash" THEN b.block = head.hash ELSE b.block = head.number

Position(u, head) ==
    IF \E i \in 1..Len(u) : Matches(u[i], head)
    THEN CHOOSE i \in 1..Len(u) :
            /\ Matches(u[i], head)
            /\ \A j \in 1..(i - 1) : ~Matches(u[j], head)
    ELSE 0

\* Vec::swap_remove: the last element takes the place of the removed one.
SwapRemove(v, i) ==
    IF i = Len(v) THEN SubSeq(v, 1, Len(v) - 1)
    ELSE [SubSeq(v, 1, Len(v) - 1) EXCEPT ![i] = v[Len(v)]]

\* for head in heads { unresolved.swap_remove(position(..).unwrap()); }
\* The unwrap of a None position panics.
RECURSIVE RemoveResolved(_, _)
RemoveResolved(u, heads) ==
    IF heads = <<>> THEN [panicked |-> FALSE, unresolved |-> u]
    ELSE LET i == Position(u, Head(heads)) IN
         IF i = 0 THEN [panicked |-> TRUE, unresolved |-> u]
         ELSE RemoveResolved(SwapRemove(u, i), Tail(heads))

\* Resolver::resolve_blocks returns any list of heads of the chain.
HeadLists == SeqsUpTo(ChainHeads, MaxUnresolved)

\* ResolveBlocks with the iteration given back after a full resolution.
ResolveBlocksUncounted ==
    /\ pc = "resolve_blocks"
    /\ \E heads \in HeadLists :
          LET r == RemoveResolved(unresolved, heads) IN
          IF r.panicked THEN
              /\ pc' = "panicked"
              /\ UNCHANGED <<result, round>>
          ELSE IF r.unresolved # <<>> THEN
              /\ Return(ErrMissingBlocks(r.unresolved))
              /\ UNCHANGED round
          ELSE
              /\ pc' = "loop"
              /\ round' = round - 1
              /\ UNCHANGED result
    /\ unresolved' = <<>>
    /\ UNCHANGED <<inputs, deployment, indexers, selection_result,
                   indexer_query, indexer_result, requests, block_requests,
                   observations, transfers>>

ResolveBlocks ==
    /\ pc = "resolve_blocks"
    /\ \E heads \in HeadLists :
          LET r == RemoveResolved(unresolved, heads) IN
          IF r.panicked THEN
              /\ pc' = "panicked"
              /\ UNCHANGED result
          ELSE IF r.unresolved # <<>> THEN
              Return(ErrMissingBlocks(r.unresolved))
          ELSE
              /\ pc' = "loop"
              /\ UNCHANGED result
    /\ unresolved' = <<>>
    /\ UNCHANGED <<inputs, deployment, indexers, round, selection_result,
                   indexer_query, indexer_result, requests, block_requests,
                   observations, transfers>>

\* ------------------------------------------------- the indexer's response
\* ObservationKind, with the indexer of the indexing it is about.
Failure(indexer, penalize) ==
    [kind |-> "Failure", indexer |-> indexer, penalize |-> penalize]
IndexingBehind(indexer) ==
    [kind |-> "IndexingBehind", indexer |-> indexer, penalize |-> FALSE]
Success(indexer) ==
    [kind |-> "Success", indexer |-> indexer, penalize |-> FALSE]

\* indexers.iter().position(|indexer| indexer == &indexer_query.indexing.indexer)
\* 0 stands for None.
IndexerPosition(v, indexer) ==
    IF \E i \in 1..Len(v) : v[i] = indexer
    THEN CHOOSE i \in 1..Len(v) :
            /\ v[i] = indexer
            /\ \A j \in 1..(i - 1) : v[j] # indexer
    ELSE 0

\* Remove that drops the last element, whatever the index.
RemoveLast(v, i) == SubSeq(v, 1, Len(v) - 1)

\* im::Vector::remove(index)
Remove(v, i) == SubSeq(v, 1, i - 1) \o SubSeq(v, i + 1, Len(v))

\* IsIndexerBehind with all() in the place of any().
IsIndexerBehindAll(response) ==
    /\ IsSome(response.errors)
    /\ \A message \in Unwrap(response.errors) : message = indexer_behind_err

\* serde_json::from_str::<Response<..>>(..).errors.as_ref()
\*     .map(|errs| errs.iter().any(|err| err.message == indexer_behind_err))
\*     .unwrap_or(false), on a body that deserializes.
IsIndexerBehind(response) ==
    /\ IsSome(response.errors)
    /\ \E message \in Unwrap(response.errors) : message = indexer_behind_err

\* Err(indexer_response_err) => { observe_failed_query(.., true); indexers.remove(..); continue }
TransportError(q) ==
    /\ observations' = Append(observations, Failure(q.indexer, TRUE))
    /\ LET i == IndexerPosition(indexers, q.indexer) IN
       IF i = 0 THEN
           /\ pc' = "panicked"
           /\ UNCHANGED indexers
       ELSE
           /\ indexers' = Remove(indexers, i)
           /\ pc' = "loop"
    /\ UNCHANGED result

\* serde_json::from_str(..).map_err(|_| QueryEngineError::NoIndexerSelected)?
UndecodableResponse(q) ==
    /\ Return(Err("NoIndexerSelected"))
    /\ UNCHANGED <<observations, indexers>>

\* BehindResponse that continues without the observation.
BehindResponseUnobserved(q) ==
    /\ pc' = "loop"
    /\ UNCHANGED <<observations, indexers, result>>

\* { observe_indexing_behind(&indexer_query); continue }
BehindResponse(q) ==
    /\ observations' = Append(observations, IndexingBehind(q.indexer))
    /\ pc' = "loop"
    /\ UNCHANGED <<indexers, result>>

\* SuccessfulResponse without the return.
SuccessfulResponseContinue(q, response) ==
    /\ observations' = Append(observations, Success(q.indexer))
    /\ pc' = "loop"
    /\ UNCHANGED <<indexers, result>>

\* observe_successful_query(..); return Ok(QueryResponse { query, response })
SuccessfulResponse(q, response) ==
    /\ observations' = Append(observations, Success(q.indexer))
    /\ Return(Ok(q, response))
    /\ UNCHANGED indexers

\* One round from the return of query_indexer to the end of the iteration.
IndexerResponse ==
    /\ pc = "query_indexer"
    /\ \E res \in QueryIndexerResult :
          LET q == Unwrap(indexer_query) IN
          /\ indexer_result' = Some(res)
          /\ IF ~res.ok THEN TransportError(q)
             ELSE IF ~Unwrap(res.response).decodable THEN UndecodableResponse(q)
             ELSE IF IsIndexerBehind(Unwrap(res.response)) THEN BehindResponse(q)
             ELSE SuccessfulResponse(q, Unwrap(res.response))
    /\ indexer_query' = None
    /\ UNCHANGED <<inputs, deployment, round, selection_result, unresolved,
                   requests, block_requests, transfers>>

Next ==
    \/ ExecuteQuery
    \/ ExecuteDeploymentQuery
    \/ LoopHead
    \/ SelectIndexer
    \/ CreateTransfer
    \/ ResolveBlocks
    \/ IndexerResponse

Spec == Init /\ [][Next]_vars

\* ---- a request while the deployment-indexers map is republished
\* InputWriters::deployment_indexers (mod.rs:137-143): the writer of the
\* Eventual publishes a new map at any time while the request runs.
WriteDeploymentIndexers ==
    /\ pc \in {"execute_query", "execute_deployment_query", "loop",
                "select_indexer", "query_indexer", "resolve_blocks"}
    /\ \E v \in DeploymentIndexersValues \ {None, deployment_indexers} :
          deployment_indexers' = v
    /\ UNCHANGED <<config, query, current_deployments, fuzz_vars, component_vars,
                   pc, deployment, indexers, round, selection_result,
                   indexer_query, indexer_result, unresolved, requests,
                   block_requests, observations, transfers, result>>

\* A request by deployment, under an API key open to every deployment, with
\* the largest retry limit; such a request does not read current_deployments.
PublishInit ==
    /\ Init
    /\ config.indexer_selection_retry_limit = MaxRetryLimit
    /\ query.subgraph.kind = "Deployment"
    /\ query.api_key_deployments = {}
    /\ current_deployments = None

PublishNext == Next \/ WriteDeploymentIndexers

PublishSpec == PublishInit /\ [][PublishNext]_vars

\* ---- a request whose calls all return
\* The task of the request is polled as long as it can move: select_indexer,
\* query_indexer and resolve_blocks return, and the steps between them run.
\* The spawned create_transfer task is under no such obligation.
Fairness ==
    /\ WF_vars(ExecuteQuery)
    /\ WF_vars(ExecuteDeploymentQuery)
    /\ WF_vars(LoopHead)
    /\ WF_vars(SelectIndexer)
    /\ WF_vars(ResolveBlocks)
    /\ WF_vars(IndexerResponse)

LiveSpec == Init /\ [][Next]_vars /\ Fairness

\* --------------------------------- the fuzz test of the selection engine
\* indexer-selection/src/test.rs: fuzz() generates a topology and a request,
\* calls select_indexers on the published state and hands the result to
\* Topology::check. select_indexers itself is the engine of spec section 4.1.

\* The variables of the query engine.
engine_vars ==
    <<config, query, current_deployments, deployment_indexers, pc, deployment,
      indexers, round, selection_result, indexer_query, indexer_result,
      unresolved, requests, block_requests, observations, transfers, result>>

\* No request in the query engine.
EngineIdle ==
    /\ config = [indexer_selection_retry_limit |-> 0, query_budget |-> QueryBudget]
    /\ query = [subgraph |-> [kind |-> "Deployment", id |-> "QmA"],
                api_key_deployments |-> {}]
    /\ current_deployments = None
    /\ deployment_indexers = None
    /\ pc = "idle"
    /\ deployment = None
    /\ indexers = <<>>
    /\ round = 0
    /\ selection_result = None
    /\ indexer_query = None
    /\ indexer_result = None
    /\ unresolved = <<>>
    /\ requests = <<>>
    /\ block_requests = 0
    /\ observations = <<>>
    /\ transfers = 0
    /\ result = None

\* The upper end of the selection_limit argument; a constant of the engine.
SELECTION_LIMIT == 3

\* Amounts of GRT are counted in tenths: UtilityParameters::new("1.0", ..)
Budget == 10

\* gen_grt(rng, &[0.0, 50e3, 100e3, 150e3]) of gen_indexer_info, in thousands.
\* Stake is read through stake == 0 and through the scoring; one non-zero
\* entry stands for the three.
Stakes == {0, 50}

\* gen_grt(rng, &[0.0, 0.1, 1.0, 2.0]) of gen_indexing: the fee of the default
\* cost model, in tenths of GRT.
Fees == {0, 1, 10, 20}

\* Blocks 0 .. n - 1 of a chain of n blocks.
ChainBlocks(n) == 0..(n - 1)

\* IndexerInfo and IndexingStatus of one indexer on the deployment of the
\* request: stake, the sum of its allocations (one allocation of 1 GRT), the
\* fee of its cost model, and its block status (reported_number), which
\* blocks.choose(rng) leaves out on an empty chain only.
IndexingStatuses(n) ==
    [stake : Stakes,
     total_allocation : {1},
     fee : Fees,
     block : IF n = 0 THEN {None} ELSE {Some(b) : b \in ChainBlocks(n)}]

\* Topology, reduced to the chain and to the indexings of the deployment the
\* request is for.
Topologies ==
    UNION {[blocks : {n}, indexers : {v}, status : [Range(v) -> IndexingStatuses(n)]] :
              n \in 0..MaxChainLen, v \in IndexerVectors}

\* SelectionLimits with a lower end of 0.
SelectionLimitsFromZero == 0..SELECTION_LIMIT

\* selection_limit: rng.gen_range(1..=SELECTION_LIMIT) as u8
SelectionLimits == 1..SELECTION_LIMIT

\* Topology::gen_request: None on an empty chain (self.blocks.last()?), else
\* a request with or without a required block. has_latest is read by the
\* scoring only.
gen_request(t) ==
    IF t.blocks = 0 THEN {None}
    ELSE {Some([indexers |-> t.indexers,
                budget |-> Budget,
                required_block |-> rb,
                latest_block |-> t.blocks - 1,
                selection_limit |-> l]) :
              rb \in {None} \cup {Some(b) : b \in ChainBlocks(t.blocks)},
              l \in SelectionLimits}

\* IndexerErrors: the map from a reason to the indexers rejected for it, with
\* the reasons that rejected an indexer as its keys
\* (entry(err).or_default().insert(indexer)).
ErrorsMap(reason) ==
    [e \in {Unwrap(reason[a]) : a \in {x \in DOMAIN reason : IsSome(reason[x])}} |->
        {a \in DOMAIN reason : reason[a] = Some(e)}]

\* selections.iter().map(|s| s.fee).fold(GRT::zero(), |sum, fee| sum + fee)
RECURSIVE FeeSum(_)
FeeSum(selections) ==
    IF selections = <<>> THEN 0
    ELSE Head(selections).fee + FeeSum(Tail(selections))

\* ---- select_indexers, from section 4.1 of the spec
\* Disqualifier without the stake test.
DisqualifierNoStake(req, st) ==
    IF /\ IsSome(req.required_block)
       /\ IsSome(st.block)
       /\ Unwrap(req.required_block) > Unwrap(st.block)
    THEN Some("MissingRequiredBlock")
    ELSE IF ~IsSome(st.block) THEN Some("NoStatus")
    ELSE IF st.total_allocation = 0 THEN Some("NoAllocation")
    ELSE IF st.fee > req.budget THEN Some("FeeTooHigh")
    ELSE None

\* Step 1: the reason that disqualifies a candidate, the first that matches
\* in the order MissingRequiredBlock, NoStatus, NoStake, NoAllocation,
\* FeeTooHigh.
Disqualifier(req, st) ==
    IF /\ IsSome(req.required_block)
       /\ IsSome(st.block)
       /\ Unwrap(req.required_block) > Unwrap(st.block)
    THEN Some("MissingRequiredBlock")
    ELSE IF ~IsSome(st.block) THEN Some("NoStatus")
    ELSE IF st.stake = 0 THEN Some("NoStake")
    ELSE IF st.total_allocation = 0 THEN Some("NoAllocation")
    ELSE IF st.fee > req.budget THEN Some("FeeTooHigh")
    ELSE None

\* Step 4: the survivors sorted by utility. The utility of a survivor rests on
\* the reputation estimator, which the test leaves at its priors and the
\* topology does not fix: every order is possible.
Orders(survivors) ==
    {o \in [1..Cardinality(survivors) -> survivors] :
        \A i, j \in DOMAIN o : i # j => o[i] # o[j]}

Min(a, b) == IF a <= b THEN a ELSE b

\* Take without the budget test.
RECURSIVE TakeAnyFee(_, _, _, _, _)
TakeAnyFee(order, status, limit, budget, taken) ==
    IF order = <<>> THEN taken
    ELSE IF Len(taken) < limit
    THEN TakeAnyFee(Tail(order), status, limit, budget,
                    Append(taken, [indexer |-> Head(order),
                                   fee |-> status[Head(order)].fee]))
    ELSE TakeAnyFee(Tail(order), status, limit, budget, taken)

\* Take without the limit test.
RECURSIVE TakeAnyNumber(_, _, _, _, _)
TakeAnyNumber(order, status, limit, budget, taken) ==
    IF order = <<>> THEN taken
    ELSE IF FeeSum(taken) + status[Head(order)].fee <= budget
    THEN TakeAnyNumber(Tail(order), status, limit, budget,
                       Append(taken, [indexer |-> Head(order),
                                      fee |-> status[Head(order)].fee]))
    ELSE TakeAnyNumber(Tail(order), status, limit, budget, taken)

\* Step 5: greedily take up to limit entries while the cumulative fee stays
\* within the budget; an entry that would exceed it is skipped.
RECURSIVE Take(_, _, _, _, _)
Take(order, status, limit, budget, taken) ==
    IF order = <<>> THEN taken
    ELSE IF /\ Len(taken) < limit
            /\ FeeSum(taken) + status[Head(order)].fee <= budget
    THEN Take(Tail(order), status, limit, budget,
              Append(taken, [indexer |-> Head(order),
                             fee |-> status[Head(order)].fee]))
    ELSE Take(Tail(order), status, limit, budget, taken)

\* select_indexers(candidates, params, context, selection_limit): the results
\* the engine can return for a topology and a request, Ok((selections, errors)).
select_indexers(t, req) ==
    LET candidates == Range(req.indexers)
        reason == [a \in candidates |-> Disqualifier(req, t.status[a])]
        survivors == {a \in candidates : ~IsSome(reason[a])}
    IN  {[selections |-> Take(o, t.status,
                              Min(req.selection_limit, SELECTION_LIMIT),
                              req.budget, <<>>),
          errors |-> ErrorsMap(reason)] : o \in Orders(survivors)}

\* ---- Topology::check
\* ExpectedError with the stake test first.
ExpectedErrorStakeFirst(req, st) ==
    IF IsSome(req.required_block) /\ ~IsSome(st.block) THEN Some("panic")
    ELSE IF st.stake = 0 THEN Some("NoStake")
    ELSE IF IsSome(req.required_block)
            /\ Unwrap(req.required_block) > Unwrap(st.block)
    THEN Some("MissingRequiredBlock")
    ELSE IF ~IsSome(st.block) THEN Some("NoStatus")
    ELSE IF st.total_allocation = 0 THEN Some("NoAllocation")
    ELSE IF st.fee > req.budget THEN Some("FeeTooHigh")
    ELSE None

\* The if / else if chain of check for one indexer; status.block.as_ref()
\* .unwrap() of its first test panics on an indexer without a block status
\* when the request requires a block.
ExpectedError(req, st) ==
    IF IsSome(req.required_block) /\ ~IsSome(st.block) THEN Some("panic")
    ELSE IF IsSome(req.required_block)
            /\ Unwrap(req.required_block) > Unwrap(st.block)
    THEN Some("MissingRequiredBlock")
    ELSE IF ~IsSome(st.block) THEN Some("NoStatus")
    ELSE IF st.stake = 0 THEN Some("NoStake")
    ELSE IF st.total_allocation = 0 THEN Some("NoAllocation")
    ELSE IF st.fee > req.budget THEN Some("FeeTooHigh")
    ELSE None

\* let mut expected_errors = ..; for indexer in &request.indexers { .. }
expected_errors(t, req) ==
    ErrorsMap([a \in Range(req.indexers) |-> ExpectedError(req, t.status[a])])

\* errors.0.iter().map(|(_, s)| s.len()).sum::<usize>()
RECURSIVE ErrorCount(_)
ErrorCount(errors) ==
    IF DOMAIN errors = {} THEN 0
    ELSE LET e == CHOOSE x \in DOMAIN errors : TRUE IN
         Cardinality(errors[e])
             + ErrorCount([x \in DOMAIN errors \ {e} |-> errors[x]])

\* Topology::check: Ok(()), or the ensure! that failed, or the panic of the
\* unwrap.
check(t, req, res) ==
    IF ~(FeeSum(res.selections) <= req.budget)
    THEN "fees <= request.params.budget"
    ELSE IF \E a \in Range(req.indexers) :
                ExpectedError(req, t.status[a]) = Some("panic")
    THEN "panicked"
    ELSE IF res.errors # expected_errors(t, req)
    THEN "errors.0 == expected_errors.0"
    ELSE IF res.selections = <<>> /\ ErrorCount(res.errors) # Len(req.indexers)
    THEN "errors.len == request.indexers.len"
    ELSE "Ok"

\* Topology::gen and gen_request of one iteration; without a request the
\* iteration ends (None => continue) and its topology is dropped.
Gen ==
    /\ fuzz_pc = "gen"
    /\ \E t \in Topologies :
          \E r \in gen_request(t) :
             IF IsSome(r) THEN
                 /\ topology' = Some(t)
                 /\ request' = r
                 /\ fuzz_pc' = "select_indexers"
             ELSE
                 /\ topology' = None
                 /\ request' = None
                 /\ fuzz_pc' = "gen"
    /\ selection' = None
    /\ checked' = None
    /\ UNCHANGED <<engine_vars, component_vars>>

\* let result = isa_state.latest().select_indexers(..)
SelectIndexers ==
    /\ fuzz_pc = "select_indexers"
    /\ selection' \in
          {Some(res) : res \in select_indexers(Unwrap(topology), Unwrap(request))}
    /\ fuzz_pc' = "check"
    /\ UNCHANGED <<engine_vars, component_vars, topology, request, checked>>

\* if let Err(err) = topology.check(&request, &result) { ..; break }
\* After Ok the iteration ends and its topology, request and result are
\* dropped.
Check ==
    /\ fuzz_pc = "check"
    /\ LET c == check(Unwrap(topology), Unwrap(request), Unwrap(selection)) IN
       /\ checked' = Some(c)
       /\ IF c = "Ok" THEN
              /\ fuzz_pc' = "gen"
              /\ topology' = None
              /\ request' = None
              /\ selection' = None
          ELSE
              /\ fuzz_pc' = "stopped"
              /\ UNCHANGED <<topology, request, selection>>
    /\ UNCHANGED <<engine_vars, component_vars>>

FuzzInit ==
    /\ EngineIdle
    /\ SubscriptionsIdle
    /\ TelemetryIdle
    /\ DecimalIdle
    /\ IpfsIdle
    /\ ActorIdle
    /\ ScenarioIdle
    /\ fuzz_pc = "gen"
    /\ topology = None
    /\ request = None
    /\ selection = None
    /\ checked = None

FuzzNext ==
    \/ Gen
    \/ SelectIndexers
    \/ Check

FuzzSpec == FuzzInit /\ [][FuzzNext]_vars

\* ------------------------------------------------ UDecimal<P>, prelude/decimal.rs
\* A value of UDecimal<P> is its internal integer; a string is a sequence of
\* one-character strings.  The internal integer is a U256 in the code; the
\* inputs drawn here stay far below 2^256, so from_dec_str never overflows.

\* The longest input string drawn from Chars.
MaxStrLen == 5

\* The largest precision P drawn for the strings and values below.
MaxPrecision == 2

\* The largest internal integer rendered without having been parsed first.
MaxInternal == 120

\* The decimal digits, in order: DigitChars[d + 1] writes the digit d.
DigitChars == <<"0", "1", "2", "3", "4", "5", "6", "7", "8", "9">>

\* The characters of the drawn inputs: three digits, the decimal point and a
\* character that is neither.
Chars == {"0", "1", "9", ".", "?"}

Precisions == 0..MaxPrecision

Strings == SeqsUpTo(Chars, MaxStrLen)

\* Inputs of test::udecimal, whose values fit the integers of the checker.
TestInputs ==
    {[p |-> 6, s |-> <<"1", ".", "1", ".", "1">>],
     [p |-> 6, s |-> <<"0", ".", "0", "0", "0", "0", "0", "1", "2">>],
     [p |-> 6, s |-> <<"1", "0", "0", ".", "0", "0", "1">>],
     [p |-> 6, s |-> <<"1", "2", "3", ".", "0">>],
     [p |-> 6, s |-> <<"1", "0", "0", ".", "0", "0", "0">>],
     [p |-> 6, s |-> <<".", "1">>],
     [p |-> 6, s |-> <<"0", ".", "0", "0", "1">>],
     [p |-> 0, s |-> <<"0", ".", "1">>],
     [p |-> 0, s |-> <<"1", "2", "3", ".", "1">>]}

DecimalInputs == {[p |-> p, s |-> s] : p \in Precisions, s \in Strings} \cup TestInputs

InvalidInput == [tag |-> "Err", error |-> "InvalidInput"]

UDecimal(internal) == [tag |-> "Ok", internal |-> internal]

ascii_digit(c) == \E d \in 1..10 : DigitChars[d] = c

DigitValue(c) == (CHOOSE d \in 1..10 : DigitChars[d] = c) - 1

RECURSIVE exp10(_)
exp10(n) == IF n = 0 THEN 1 ELSE 10 * exp10(n - 1)

\* The number a run of digits writes; the empty run writes 0.
RECURSIVE DecValue(_)
DecValue(digits) ==
    IF digits = <<>>
    THEN 0
    ELSE 10 * DecValue(SubSeq(digits, 1, Len(digits) - 1))
            + DigitValue(digits[Len(digits)])

\* U256::from_dec_str(..).map_err(|_| InvalidInput): an error on any
\* character that is not a digit.
from_dec_str(digits) ==
    IF \E i \in 1..Len(digits) : ~ascii_digit(digits[i])
    THEN InvalidInput
    ELSE UDecimal(DecValue(digits))

\* s.chars().position(|c| c == '.').unwrap_or(s.len())
DotPosition(s) ==
    IF \E i \in 1..Len(s) : s[i] = "."
    THEN (CHOOSE i \in 1..Len(s) : s[i] = "." /\ \A j \in 1..(i - 1) : s[j] # ".") - 1
    ELSE Len(s)

\* Mutant of TakeFrac: the decimal point is not skipped.
TakeFracUnskipped(frac, p) ==
    [i \in 1..p |-> IF i <= Len(frac) THEN frac[i] ELSE "0"]

\* frac.chars().skip(1).chain(iter::repeat('0')).take(p)
TakeFrac(frac, p) ==
    LET rest == IF frac = <<>> THEN <<>> ELSE Tail(frac)
    IN  [i \in 1..p |-> IF i <= Len(rest) THEN rest[i] ELSE "0"]

from_str(p, s) ==
    IF ~\E i \in 1..Len(s) : ascii_digit(s[i])
    THEN InvalidInput
    ELSE LET at == DotPosition(s)
             int == SubSeq(s, 1, at)
             frac == SubSeq(s, at + 1, Len(s))
             digits == int \o TakeFrac(frac, p)
         IN  from_dec_str(digits)

\* U256::to_string
RECURSIVE to_string(_)
to_string(n) ==
    IF n < 10
    THEN <<DigitChars[n + 1]>>
    ELSE to_string(n \div 10) \o <<DigitChars[(n % 10) + 1]>>

\* Mutant of TrailingZeros: no trailing zero is counted.
TrailingZerosNone(digits) == 0

\* digits.iter().rev().take_while(|&&b| b == b'0').count()
TrailingZeros(digits) ==
    CHOOSE k \in 0..Len(digits) :
        /\ \A i \in (Len(digits) - k + 1)..Len(digits) : digits[i] = "0"
        /\ k = Len(digits) \/ digits[Len(digits) - k] # "0"

\* Mutant of Fill: no zero between the point and the digits.
FillNone(n) == <<>>

\* iter::repeat('0').take(n)
Fill(n) == [i \in 1..n |-> "0"]

fmt(p, internal) ==
    IF internal = 0
    THEN <<"0">>
    ELSE LET digits == to_string(internal)
             ctz == Min(TrailingZeros(digits), p)
         IN  IF Len(digits) < p
             THEN <<"0", ".">> \o Fill(p - Len(digits))
                      \o SubSeq(digits, 1, Len(digits) - ctz)
             ELSE LET split == Len(digits) - p
                      frac == SubSeq(digits, split + 1, Len(digits) - ctz)
                      int == IF split = 0 THEN <<"0">> ELSE SubSeq(digits, 1, split)
                  IN  IF ctz = p THEN int ELSE int \o <<".">> \o frac

\* Everything but the decimal.
decimal_rest == <<engine_vars, fuzz_vars, ipfs, actor, scenario, subscriptions, telemetry>>

\* test_udecimal, line 261: the input is parsed; a value goes on to be
\* rendered.
FromStr ==
    /\ decimal.pc = "from_str"
    /\ LET d == from_str(decimal.p, Unwrap(decimal.s))
       IN  decimal' = [decimal EXCEPT !.parsed = Some(d),
                                      !.internal = IF d.tag = "Ok" THEN Some(d.internal) ELSE None,
                                      !.pc = IF d.tag = "Ok" THEN "fmt" ELSE "done"]
    /\ UNCHANGED decimal_rest

\* test_udecimal, line 265: the value is rendered.
Fmt ==
    /\ decimal.pc = "fmt"
    /\ decimal' = [decimal EXCEPT !.rendered = Some(fmt(decimal.p, Unwrap(decimal.internal))),
                                  !.pc = "reparse"]
    /\ UNCHANGED decimal_rest

\* The rendered string is parsed again.
Reparse ==
    /\ decimal.pc = "reparse"
    /\ decimal' = [decimal EXCEPT !.reparsed = Some(from_str(decimal.p, Unwrap(decimal.rendered))),
                                  !.pc = "done"]
    /\ UNCHANGED decimal_rest

\* Either a string to parse, or a value to render.
DecimalInit ==
    /\ EngineIdle
    /\ FuzzIdle
    /\ SubscriptionsIdle
    /\ TelemetryIdle
    /\ IpfsIdle
    /\ ActorIdle
    /\ ScenarioIdle
    /\ \/ \E i \in DecimalInputs :
            decimal = [pc |-> "from_str", p |-> i.p, s |-> Some(i.s), parsed |-> None,
                       internal |-> None, rendered |-> None, reparsed |-> None]
       \/ \E p \in Precisions, e \in 0..MaxInternal :
            decimal = [pc |-> "fmt", p |-> p, s |-> None, parsed |-> None,
                       internal |-> Some(e), rendered |-> None, reparsed |-> None]

DecimalNext == FromStr \/ Fmt \/ Reparse

DecimalSpec == DecimalInit /\ [][DecimalNext]_vars

\* ---- multiplication and division of UDecimal<P>
\* The internal integer is a U256, whose operators panic on overflow.  The
\* model keeps the storage StorageBits wide, so that products that overflow
\* are within reach of the operands drawn.

\* The width of the storage of the model, in bits.
StorageBits == 6

RECURSIVE exp2(_)
exp2(n) == IF n = 0 THEN 1 ELSE 2 * exp2(n - 1)

\* The largest value of the storage.
StorageMax == exp2(StorageBits) - 1

\* The operands drawn: every value of the storage.
Operands == 0..StorageMax

\* The panic of an arithmetic operation of U256.
Panic == [tag |-> "Panic"]

\* Mutant of mul: the product is left unscaled.
mul_unscaled(p, a, b) ==
    IF exp10(p) > StorageMax \/ a * b > StorageMax
    THEN Panic
    ELSE UDecimal(a * b)

\* (self.internal * rhs.internal) / U256::exp10(P)
mul(p, a, b) ==
    IF exp10(p) > StorageMax \/ a * b > StorageMax
    THEN Panic
    ELSE UDecimal((a * b) \div exp10(p))

\* (self.internal * U256::exp10(P)) / rhs.internal
div(p, a, b) ==
    IF exp10(p) > StorageMax \/ a * exp10(p) > StorageMax \/ b = 0
    THEN Panic
    ELSE UDecimal((a * exp10(p)) \div b)

\* Two values of UDecimal<P> and the operation applied to them.
ArithInit ==
    /\ EngineIdle
    /\ FuzzIdle
    /\ SubscriptionsIdle
    /\ TelemetryIdle
    /\ IpfsIdle
    /\ ActorIdle
    /\ ScenarioIdle
    /\ \E p \in Precisions, a \in Operands, b \in Operands, op \in {"mul", "div"} :
          decimal = [pc |-> op, p |-> p, a |-> a, b |-> b, out |-> None]

Mul ==
    /\ decimal.pc = "mul"
    /\ decimal' = [decimal EXCEPT !.out = Some(mul(decimal.p, decimal.a, decimal.b)),
                                  !.pc = "multiplied"]
    /\ UNCHANGED decimal_rest

Div ==
    /\ decimal.pc = "div"
    /\ decimal' = [decimal EXCEPT !.out = Some(div(decimal.p, decimal.a, decimal.b)),
                                  !.pc = "divided"]
    /\ UNCHANGED decimal_rest

ArithNext == Mul \/ Div

ArithSpec == ArithInit /\ [][ArithNext]_vars

\* ------------------------------------------------ the IPFS client, ipfs.rs
\* One Client and the cat calls made on it concurrently.  A call is at
\* "start" before it is made, at "acquire" while it awaits the semaphore, at
\* "send" while its request is sent and the response awaited, at "text"
\* while the body is read, and at "done" once cat has returned and dropped
\* its permit.

\* The number of cat calls made on the client.
NumCalls == 3

\* The largest max_concurrent the client is created with.
MaxPermits == 2

Calls == 1..NumCalls

\* Everything but the IPFS client.
ipfs_rest == <<engine_vars, fuzz_vars, decimal, actor, scenario, subscriptions, telemetry>>

\* Client::new: Semaphore::new(max_concurrent).
IpfsInit ==
    /\ EngineIdle
    /\ FuzzIdle
    /\ SubscriptionsIdle
    /\ TelemetryIdle
    /\ DecimalIdle
    /\ ActorIdle
    /\ ScenarioIdle
    /\ \E max_concurrent \in 0..MaxPermits :
        ipfs = [pc |-> "run",
                max_concurrent |-> max_concurrent,
                permits |-> max_concurrent,
                calls |-> [c \in Calls |-> [pc |-> "start", permit |-> FALSE, result |-> None]]]

\* cat is called and reaches semaphore.acquire().
Cat(c) ==
    /\ ipfs.pc = "run"
    /\ ipfs.calls[c].pc = "start"
    /\ ipfs' = [ipfs EXCEPT !.calls[c].pc = "acquire"]
    /\ UNCHANGED ipfs_rest

\* Mutant of Acquire: the permit is dropped as soon as it is acquired.
AcquireDropped(c) ==
    /\ ipfs.pc = "run"
    /\ ipfs.calls[c].pc = "acquire"
    /\ ipfs.permits > 0
    /\ ipfs' = [ipfs EXCEPT !.calls[c].pc = "send"]
    /\ UNCHANGED ipfs_rest

\* let _permit = self.semaphore.acquire().await: the call goes on once a
\* permit is free, and holds it until cat returns.
Acquire(c) ==
    /\ ipfs.pc = "run"
    /\ ipfs.calls[c].pc = "acquire"
    /\ ipfs.permits > 0
    /\ ipfs' = [ipfs EXCEPT !.permits = @ - 1,
                            !.calls[c].permit = TRUE,
                            !.calls[c].pc = "send"]
    /\ UNCHANGED ipfs_rest

\* Mutant of SendFails: the permit is not given back when cat returns the
\* error.
SendFailsLeaks(c) ==
    /\ ipfs.pc = "run"
    /\ ipfs.calls[c].pc = "send"
    /\ ipfs' = [ipfs EXCEPT !.calls[c].permit = FALSE,
                            !.calls[c].result = Some("Err"),
                            !.calls[c].pc = "done"]
    /\ UNCHANGED ipfs_rest

\* send().await.and_then(error_for_status)? fails: cat returns the error and
\* _permit is dropped.
SendFails(c) ==
    /\ ipfs.pc = "run"
    /\ ipfs.calls[c].pc = "send"
    /\ ipfs' = [ipfs EXCEPT !.permits = IF ipfs.calls[c].permit THEN @ + 1 ELSE @,
                            !.calls[c].permit = FALSE,
                            !.calls[c].result = Some("Err"),
                            !.calls[c].pc = "done"]
    /\ UNCHANGED ipfs_rest

\* The response arrives with a success status; the body is read next.
SendSucceeds(c) ==
    /\ ipfs.pc = "run"
    /\ ipfs.calls[c].pc = "send"
    /\ ipfs' = [ipfs EXCEPT !.calls[c].pc = "text"]
    /\ UNCHANGED ipfs_rest

\* text().await ends, with the body or an error: cat returns and _permit is
\* dropped.
Text(c) ==
    /\ ipfs.pc = "run"
    /\ ipfs.calls[c].pc = "text"
    /\ \E r \in {"Ok", "Err"} :
        ipfs' = [ipfs EXCEPT !.permits = IF ipfs.calls[c].permit THEN @ + 1 ELSE @,
                             !.calls[c].permit = FALSE,
                             !.calls[c].result = Some(r),
                             !.calls[c].pc = "done"]
    /\ UNCHANGED ipfs_rest

IpfsNext ==
    \E c \in Calls :
        \/ Cat(c)
        \/ Acquire(c)
        \/ SendFails(c)
        \/ SendSucceeds(c)
        \/ Text(c)

IpfsSpec == IpfsInit /\ [][IpfsNext]_vars

\* The scheduling of the calls: a request that is sent gets its response or
\* its error, a body that is read ends, and the semaphore wakes a waiting
\* call when a permit is free.
IpfsLiveSpec ==
    /\ IpfsInit
    /\ [][IpfsNext]_vars
    /\ \A c \in Calls :
          /\ WF_vars(Acquire(c))
          /\ WF_vars(SendFails(c) \/ SendSucceeds(c))
          /\ WF_vars(Text(c))

\* ------------------------- the update queue, the actor and a snapshot reader
\* The fuzz test creates the double buffer and the update queue and spawns
\* process_updates (test.rs:268-273); Topology::gen writes updates and
\* flushes (84-113); the test reads the latest snapshot and calls
\* select_indexers on it (302-307).  process_updates, the queue and the
\* double buffer are modelled from section 4.3 and section 5 of the spec:
\* the actor drains the flushed updates as a batch, applies them one by one
\* to the state it owns, and then publishes a snapshot of it.

\* The number of updates written to the queue.
MaxUpdates == 3

\* The exchange rates written: Update::USDToGRTConversion.
ConversionRates == {1, 2}

\* The updates written to the queue.
Updates ==
    {[kind |-> "USDToGRTConversion", value |-> v] : v \in ConversionRates}
        \cup {[kind |-> "SlashingPercentage", value |-> 1]}
        \cup {[kind |-> "Indexers", value |-> v] : v \in IndexerVectors}

\* crate::State::default()
DefaultState == [usd_to_grt_conversion |-> None, slashing_percentage |-> None, indexers |-> <<>>]

\* One update applied to the state the actor owns.
apply(state, update) ==
    CASE update.kind = "USDToGRTConversion" ->
            [state EXCEPT !.usd_to_grt_conversion = Some(update.value)]
      [] update.kind = "SlashingPercentage" ->
            [state EXCEPT !.slashing_percentage = Some(update.value)]
      [] update.kind = "Indexers" ->
            [state EXCEPT !.indexers = update.value]

\* Everything but the queue, the actor and the reader.
actor_rest == <<engine_vars, fuzz_vars, decimal, ipfs, scenario, subscriptions, telemetry>>

\* double_buffer!(State::default()), buffer_queue::pair() and the actor
\* spawned: nothing written, the default state published.
ActorInit ==
    /\ EngineIdle
    /\ FuzzIdle
    /\ SubscriptionsIdle
    /\ TelemetryIdle
    /\ DecimalIdle
    /\ IpfsIdle
    /\ ScenarioIdle
    /\ actor = [pc |-> "run",
                written |-> <<>>,
                queue |-> <<>>,
                flushed |-> 0,
                batch |-> <<>>,
                applied |-> 0,
                boundaries |-> {0},
                dirty |-> FALSE,
                state |-> DefaultState,
                published |-> DefaultState,
                reader |-> "idle",
                snapshot |-> None,
                result |-> None]

\* Mutant of Write: the update jumps the queue.
WriteFirst(u) ==
    /\ actor.pc = "run"
    /\ Len(actor.written) < MaxUpdates
    /\ actor' = [actor EXCEPT !.written = Append(@, u),
                              !.queue = SubSeq(@, 1, actor.flushed) \o <<u>>
                                            \o SubSeq(@, actor.flushed + 1, Len(@))]
    /\ UNCHANGED actor_rest

\* update_writer.write(u): the update joins the end of the queue.
Write(u) ==
    /\ actor.pc = "run"
    /\ Len(actor.written) < MaxUpdates
    /\ actor' = [actor EXCEPT !.written = Append(@, u),
                              !.queue = Append(@, u)]
    /\ UNCHANGED actor_rest

\* update_writer.flush(): what was written is handed to the actor.
Flush ==
    /\ actor.pc = "run"
    /\ actor.flushed < Len(actor.queue)
    /\ actor' = [actor EXCEPT !.flushed = Len(actor.queue)]
    /\ UNCHANGED actor_rest

\* process_updates drains the flushed updates as one batch, once the batch
\* before it is applied and published.
TakeBatch ==
    /\ actor.pc = "run"
    /\ actor.batch = <<>>
    /\ ~actor.dirty
    /\ actor.flushed > 0
    /\ actor' = [actor EXCEPT !.batch = SubSeq(actor.queue, 1, actor.flushed),
                              !.queue = SubSeq(@, actor.flushed + 1, Len(@)),
                              !.flushed = 0,
                              !.boundaries = @ \cup {actor.applied + actor.flushed}]
    /\ UNCHANGED actor_rest

\* The actor applies the next update of the batch to its state.
ApplyUpdate ==
    /\ actor.pc = "run"
    /\ actor.batch # <<>>
    /\ actor' = [actor EXCEPT !.state = apply(@, Head(actor.batch)),
                              !.batch = Tail(@),
                              !.applied = @ + 1,
                              !.dirty = TRUE]
    /\ UNCHANGED actor_rest

\* After the batch the actor swaps a snapshot of its state into the double
\* buffer.
Publish ==
    /\ actor.pc = "run"
    /\ actor.batch = <<>>
    /\ actor.dirty
    /\ actor' = [actor EXCEPT !.published = actor.state,
                              !.dirty = FALSE]
    /\ UNCHANGED actor_rest

\* Mutant of Latest: the reader is handed the state the actor works on.
LatestWorkingState ==
    /\ actor.pc = "run"
    /\ actor.reader = "idle"
    /\ actor' = [actor EXCEPT !.snapshot = Some(actor.state),
                              !.reader = "selecting"]
    /\ UNCHANGED actor_rest

\* isa_state.latest(): the reader takes hold of the published snapshot.
Latest ==
    /\ actor.pc = "run"
    /\ actor.reader = "idle"
    /\ actor' = [actor EXCEPT !.snapshot = Some(actor.published),
                              !.reader = "selecting"]
    /\ UNCHANGED actor_rest

\* select_indexers runs on the snapshot the reader holds: its candidates are
\* the indexers of that snapshot.
Select ==
    /\ actor.pc = "run"
    /\ actor.reader = "selecting"
    /\ actor' = [actor EXCEPT !.result = Some(Unwrap(actor.snapshot).indexers),
                              !.reader = "done"]
    /\ UNCHANGED actor_rest

ActorNext ==
    \/ \E u \in Updates : Write(u)
    \/ Flush
    \/ TakeBatch
    \/ ApplyUpdate
    \/ Publish
    \/ Latest
    \/ Select

ActorSpec == ActorInit /\ [][ActorNext]_vars

\* ------------------------------ select_indexers on candidates of known utility
\* One call of select_indexers (made as in test.rs:302-307) on a snapshot
\* whose candidates have a known fee and utility, following the selection
\* algorithm of section 4.1 of the spec.  Fees and the budget are in units
\* of 0.0001 GRT.

\* The fees of the candidates.
ScenarioFees == {5, 7}

\* The utilities of the candidates.
Utilities == {1, 2}

\* The candidates of the call: each has reported a block and holds one
\* allocation; its stake, fee and utility vary.
ScenarioStatuses(n) ==
    [1..n -> [stake : Stakes, total_allocation : {1}, fee : ScenarioFees,
              utility : Utilities, block : {Some(0)}]]

\* The snapshot and the parameters of the call: a budget of 0.001 GRT and no
\* required block.
Scenarios ==
    UNION {{[indexers |-> v, status |-> s, budget |-> 10, required_block |-> None,
             selection_limit |-> l] :
               s \in ScenarioStatuses(Len(v)), l \in SelectionLimits} :
           v \in IndexerVectors}

\* Mutant of Before: ties of utility and fee are left open.
BeforeNoAddress(status, a, b) ==
    \/ status[a].utility > status[b].utility
    \/ /\ status[a].utility = status[b].utility
       /\ status[a].fee < status[b].fee

\* Mutant of Before: ties of utility are broken by the larger fee.
BeforeLargerFee(status, a, b) ==
    \/ status[a].utility > status[b].utility
    \/ /\ status[a].utility = status[b].utility
       /\ status[a].fee > status[b].fee
    \/ /\ status[a].utility = status[b].utility
       /\ status[a].fee = status[b].fee
       /\ a < b

\* Step 4, for two survivors: a comes before b when its utility is larger;
\* when the utilities are equal, when its fee is smaller; when the fees are
\* equal too, when its address is smaller.
Before(status, a, b) ==
    \/ status[a].utility > status[b].utility
    \/ /\ status[a].utility = status[b].utility
       /\ status[a].fee < status[b].fee
    \/ /\ status[a].utility = status[b].utility
       /\ status[a].fee = status[b].fee
       /\ a < b

\* Step 4: the orders of the survivors that a sort by Before can produce,
\* those where no survivor stands after one it comes before.
SortedOrders(survivors, status) ==
    {o \in Orders(survivors) :
        \A i, j \in DOMAIN o : i < j => ~Before(status, o[j], o[i])}

\* select_indexers on a scenario, steps 1 to 6: the results it can return.
select_sorted(sc) ==
    LET candidates == Range(sc.indexers)
        reason == [a \in candidates |-> Disqualifier(sc, sc.status[a])]
        survivors == {a \in candidates : ~IsSome(reason[a])}
    IN  {[selections |-> Take(o, sc.status,
                              Min(sc.selection_limit, SELECTION_LIMIT),
                              sc.budget, <<>>),
          errors |-> ErrorsMap(reason)] : o \in SortedOrders(survivors, sc.status)}

\* Everything but the scenario.
scenario_rest == <<engine_vars, fuzz_vars, decimal, ipfs, actor, subscriptions, telemetry>>

ScenarioInit ==
    /\ EngineIdle
    /\ FuzzIdle
    /\ SubscriptionsIdle
    /\ TelemetryIdle
    /\ DecimalIdle
    /\ IpfsIdle
    /\ ActorIdle
    /\ \E sc \in Scenarios : scenario = [pc |-> "select", input |-> sc, result |-> None]

\* isa_state.latest().select_indexers(candidates, params, context, limit)
SelectScenario ==
    /\ scenario.pc = "select"
    /\ \E r \in select_sorted(scenario.input) :
        scenario' = [scenario EXCEPT !.result = Some(r), !.pc = "done"]
    /\ UNCHANGED scenario_rest

ScenarioNext == SelectScenario

ScenarioSpec == ScenarioInit /\ [][ScenarioNext]_vars

\* ----------------------- the subscriptions poller, subscriptions_subgraph.rs
\* Client::create makes the Eventual and starts the timer; every tick locks
\* the client and runs poll_active_subscriptions, whose error is only
\* logged.  The polls run one after the other, under the mutex.

\* The number of polls.
MaxPolls == 2

\* The largest number of active subscriptions a poll returns.
MaxSubscriptions == 2

\* ActiveSubscription { user: { id, authorized_signers }, rate, .. }, for
\* two users, who authorize no signer or the signer 3.
ActiveSubscription ==
    [user : {1, 2}, authorized_signers : {{}, {3}}, rate : {1}]

\* The outcomes of paginated_query: an error, or a list of subscriptions.
\* The authorized signers belong to the user, so two subscriptions of one
\* user report the same.
PollOutcomes ==
    {[ok |-> FALSE, response |-> <<>>]}
        \cup {[ok |-> TRUE, response |-> r] :
                 r \in {r \in SeqsUpTo(ActiveSubscription, MaxSubscriptions) :
                           \A i, j \in 1..Len(r) :
                               r[i].user = r[j].user
                                   => r[i].authorized_signers = r[j].authorized_signers}}

\* Mutant of Discarded: an empty response is published like any other.
DiscardedNever(response) == FALSE

\* if active_subscriptions_response.is_empty() { return Err(..) }
Discarded(response) == response = <<>>

\* Mutant of Signers: the user's own address is left out.
SignersAuthorizedOnly(sub) == sub.authorized_signers

\* authorized_signers.into_iter().map(|signer| signer.signer).chain([user.id]).collect()
Signers(sub) == sub.authorized_signers \cup {sub.user}

\* The map collected from the response: for a user with several entries the
\* last one stands.
SubscriptionsMap(response) ==
    [u \in {response[i].user : i \in 1..Len(response)} |->
        LET last == CHOOSE i \in 1..Len(response) :
                        /\ response[i].user = u
                        /\ \A j \in 1..Len(response) : response[j].user = u => j <= i
        IN  [signers |-> Signers(response[last]), rate |-> response[last].rate]]

\* Everything but the subscriptions poller.
subscriptions_rest ==
    <<engine_vars, fuzz_vars, decimal, ipfs, actor, scenario, telemetry>>

\* Client::create: Eventual::new(), no value written.
SubscriptionsInit ==
    /\ EngineIdle
    /\ FuzzIdle
    /\ DecimalIdle
    /\ IpfsIdle
    /\ ActorIdle
    /\ ScenarioIdle
    /\ TelemetryIdle
    /\ subscriptions = [pc |-> "run", polls |-> <<>>, published |-> None]

\* One tick of the timer: poll_active_subscriptions, from the query to the
\* write.
Poll ==
    /\ subscriptions.pc = "run"
    /\ Len(subscriptions.polls) < MaxPolls
    /\ \E o \in PollOutcomes :
          subscriptions' =
              [subscriptions EXCEPT
                  !.polls = Append(@, o),
                  !.published =
                      IF ~o.ok \/ Discarded(o.response)
                      THEN @
                      ELSE Some(SubscriptionsMap(o.response))]
    /\ UNCHANGED subscriptions_rest

SubscriptionsNext == Poll

SubscriptionsSpec == SubscriptionsInit /\ [][SubscriptionsNext]_vars

\* -------------------------- the selection-error telemetry, kafka_client.rs
\* ISAScoringError::new builds the record sent to the topic
\* gateway_isa_errors from a query, an indexer, a selection error and a
\* message.

\* The errors of indexer_selection::SelectionError: the match of
\* ISAScoringError::new has an arm for each of these kinds and no other.  Two
\* payloads are drawn for the kinds that carry one: a block, a reason, an
\* indexing or a count.
IndexerSelectionErrors ==
    {[kind |-> k, payload |-> None] : k \in {"BadInput", "MissingNetworkParams"}}
        \cup {[kind |-> k, payload |-> Some(x)] :
                 k \in {"MissingBlock", "BadIndexer", "NoAllocation", "FeesTooHigh"},
                 x \in {1, 2}}

\* Mutant of error_code: FeesTooHigh shares the code of NoAllocation.
error_code_shared(err) ==
    CASE err.kind = "BadInput" -> 1
      [] err.kind = "MissingNetworkParams" -> 2
      [] err.kind = "MissingBlock" -> 3
      [] err.kind = "BadIndexer" -> 4
      [] err.kind = "NoAllocation" -> 5
      [] err.kind = "FeesTooHigh" -> 5

\* The first component of the match on the error.
error_code(err) ==
    CASE err.kind = "BadInput" -> 1
      [] err.kind = "MissingNetworkParams" -> 2
      [] err.kind = "MissingBlock" -> 3
      [] err.kind = "BadIndexer" -> 4
      [] err.kind = "NoAllocation" -> 5
      [] err.kind = "FeesTooHigh" -> 6

\* The second component: empty without a payload, the payload's Debug
\* rendering, or the count's Display rendering.
error_data(err) ==
    CASE err.kind \in {"BadInput", "MissingNetworkParams"} -> <<>>
      [] err.kind \in {"MissingBlock", "BadIndexer", "NoAllocation"}
            -> <<"Debug", Unwrap(err.payload)>>
      [] err.kind = "FeesTooHigh" -> <<"Display", Unwrap(err.payload)>>

\* Everything but the telemetry.
telemetry_rest ==
    <<engine_vars, fuzz_vars, decimal, ipfs, actor, scenario, subscriptions>>

\* The arguments of one call of ISAScoringError::new; query.subgraph is set
\* once the subgraph is resolved.
TelemetryInit ==
    /\ EngineIdle
    /\ FuzzIdle
    /\ DecimalIdle
    /\ IpfsIdle
    /\ ActorIdle
    /\ ScenarioIdle
    /\ SubscriptionsIdle
    /\ \E q \in [ray_id : {"ray"}, local_id : {1, 2},
                  subgraph : {None, Some("QmA"), Some("QmB")}],
          i \in 1..2, err \in IndexerSelectionErrors :
          telemetry = [pc |-> "new", query |-> q, indexer |-> i, err |-> err,
                       record |-> None]

\* ISAScoringError::new, for a query with its subgraph.
NewScoringError ==
    /\ telemetry.pc = "new"
    /\ telemetry.query.subgraph # None
    /\ telemetry' =
          [telemetry EXCEPT
              !.pc = "built",
              !.record = Some([ray_id |-> telemetry.query.ray_id,
                               query_id |-> telemetry.query.local_id,
                               deployment |-> Unwrap(telemetry.query.subgraph),
                               indexer |-> telemetry.indexer,
                               error |-> <<"Debug", telemetry.err>>,
                               error_code |-> error_code(telemetry.err),
                               error_data |-> error_data(telemetry.err)])]
    /\ UNCHANGED telemetry_rest

\* query.subgraph.as_ref().unwrap() on a query without subgraph: the call
\* panics and no record is built.
NewScoringErrorPanics ==
    /\ telemetry.pc = "new"
    /\ telemetry.query.subgraph = None
    /\ telemetry' = [telemetry EXCEPT !.pc = "panicked"]
    /\ UNCHANGED telemetry_rest

TelemetryNext == NewScoringError \/ NewScoringErrorPanics

TelemetrySpec == TelemetryInit /\ [][TelemetryNext]_vars

\* ------------------------------------------------------------ properties
Last(s) == s[Len(s)]

NoIndexerSelected == Some(Err("NoIndexerSelected"))

Kinds(kind) == {k \in 1..Len(observations) : observations[k].kind = kind}

\* The result of query_indexer, as the claims word it.
TransportFailed(res) == ~res.ok
Undecodable(res) == res.ok /\ ~Unwrap(res.response).decodable
HasBehindMarker(res) ==
    /\ res.ok
    /\ Unwrap(res.response).decodable
    /\ Unwrap(res.response).errors # None
    /\ indexer_behind_err \in Unwrap(Unwrap(res.response).errors)
Valid(res) ==
    /\ res.ok
    /\ Unwrap(res.response).decodable
    /\ ~HasBehindMarker(res)

\* The k-th observation is about the k-th indexer request: every request but a
\* pending one, or one whose response ended the request unobserved, has
\* exactly one.
ObservationsFollowRequests ==
    /\ Len(observations) <= Len(requests)
    /\ \A k \in 1..Len(observations) :
          observations[k].indexer = requests[k].indexer
    /\ pc = "query_indexer" => Len(observations) = Len(requests) - 1

\* C1: a request runs at most indexer_selection_retry_limit selection rounds
\* and so issues at most that many indexer requests; when the loop leaves with
\* its rounds used up, no round has succeeded and the request ends with
\* NoIndexerSelected.
C1_RetryLimitBoundsRounds ==
    [][/\ round' <= config'.indexer_selection_retry_limit
       /\ Len(requests') <= round'
       /\ (/\ pc = "loop"
           /\ pc' # "loop"
           /\ round = config.indexer_selection_retry_limit)
            => /\ pc' = "done"
               /\ result' = NoIndexerSelected
               /\ \A k \in 1..Len(observations') :
                     observations'[k].kind # "Success"]_vars

\* The largest retry limit used up, every round with an indexer request that
\* failed or was behind.
C1_Witness ==
    /\ pc = "done"
    /\ config.indexer_selection_retry_limit = MaxRetryLimit
    /\ round = MaxRetryLimit
    /\ Len(requests) = MaxRetryLimit
    /\ Len(observations) = MaxRetryLimit
    /\ result = NoIndexerSelected

\* C2: a response whose error list holds the indexer-behind message leaves
\* exactly one observation for its request, an IndexingBehind of that
\* indexer: no Failure, no Success.
C2_BehindObservedOnce ==
    /\ ObservationsFollowRequests
    /\ (indexer_result # None /\ HasBehindMarker(Unwrap(indexer_result)))
        => /\ Len(observations) = Len(requests)
           /\ Last(observations) = IndexingBehind(Last(requests).indexer)

\* A response with the behind message next to another error, handled.
C2_Witness ==
    /\ indexer_result # None
    /\ HasBehindMarker(Unwrap(indexer_result))
    /\ Unwrap(Unwrap(indexer_result).response).errors = Some(Messages)
    /\ pc = "loop"
    /\ Last(observations).kind = "IndexingBehind"

\* Nothing of a selection round, a block resolution, an indexer request, an
\* observation or a collateral transfer has happened.
NothingStarted ==
    /\ round = 0
    /\ requests = <<>>
    /\ block_requests = 0
    /\ observations = <<>>
    /\ transfers = 0
    /\ indexers = <<>>

RECURSIVE SumFees(_)
SumFees(reqs) == IF reqs = <<>> THEN 0 ELSE Head(reqs).fee + SumFees(Tail(reqs))

\* C3: an indexer that answered with the behind marker is in no candidate
\* list handed to a later selection round of the request.
C3_BehindIndexerDropped ==
    pc = "select_indexer"
        => \A k \in Kinds("IndexingBehind") :
              observations[k].indexer \notin Range(indexers)

\* C4: a transport error leaves exactly one Failure observation with
\* penalize = true for the request's indexer, takes the indexer out of the
\* candidate list and returns to the head of the loop (the request then ends
\* only when its rounds are used up); the indexer is never a candidate and
\* never queried again.
C4_TransportErrorRecovered ==
    /\ ObservationsFollowRequests
    /\ (indexer_result # None /\ TransportFailed(Unwrap(indexer_result)))
        => /\ Len(observations) = Len(requests)
           /\ Last(observations) = Failure(Last(requests).indexer, TRUE)
           /\ pc \in {"loop", "done"}
           /\ pc = "done"
                => /\ result = NoIndexerSelected
                   /\ round = config.indexer_selection_retry_limit
    /\ \A k \in Kinds("Failure") :
          /\ observations[k].penalize
          /\ observations[k].indexer \notin Range(indexers)
          /\ \A j \in (k + 1)..Len(requests) :
                requests[j].indexer # observations[k].indexer

\* After a transport error the next round queries another indexer.
C4_Witness ==
    /\ Len(requests) = 2
    /\ observations = <<Failure(requests[1].indexer, TRUE)>>
    /\ pc = "query_indexer"
    /\ indexers # <<>>

\* C5: a response body that is no GraphQL response envelope leaves a Failure
\* observation for its indexer, takes the indexer out of the candidate list,
\* and does not end the request while rounds remain.
C5_UndecodableRecovered ==
    (indexer_result # None /\ Undecodable(Unwrap(indexer_result)))
        => /\ Len(observations) = Len(requests)
           /\ Last(observations).kind = "Failure"
           /\ Last(requests).indexer \notin Range(indexers)
           /\ round < config.indexer_selection_retry_limit => pc # "done"

\* C6: once a Success has been observed it is the only one and the last
\* observation, for the last indexer request, which was answered with a valid
\* response; the request is over with Ok carrying that query and that
\* response, and every round started is accounted for by the indexer requests
\* and block resolutions made before.
C6_FirstValidResponseWins ==
    /\ (indexer_result # None /\ Valid(Unwrap(indexer_result)))
        => Kinds("Success") # {}
    /\ Kinds("Success") # {}
        => /\ Kinds("Success") = {Len(observations)}
           /\ Len(observations) = Len(requests)
           /\ Last(observations) = Success(Last(requests).indexer)
           /\ round = Len(requests) + block_requests
           /\ indexer_result # None
           /\ Valid(Unwrap(indexer_result))
           /\ pc = "done"
           /\ result # None
           /\ Unwrap(result).ok
           /\ Unwrap(Unwrap(result).query).indexer = Last(requests).indexer
           /\ Unwrap(Unwrap(result).query).fee = Last(requests).fee
           /\ Unwrap(result).response = Unwrap(indexer_result).response

\* A request that succeeds in its second round, after a failed first one.
C6_Witness ==
    /\ pc = "done"
    /\ result # None
    /\ Unwrap(result).ok
    /\ Len(requests) = 2
    /\ observations[1].kind = "Failure"
    /\ observations[2].kind = "Success"

\* C7: the fees of all indexer queries issued for one request sum to at most
\* query_budget.
C7_FeesWithinBudget == SumFees(requests) <= config.query_budget

\* C8: with two indexers for the deployment and a retry limit of at least 2,
\* when the first indexer queried answers with the behind marker the next
\* indexer request goes to the other indexer, and if that one succeeds the
\* request ends with its QueryResponse and exactly one IndexingBehind.
C8_BehindThenSecondIndexer ==
    (/\ deployment # None
     /\ Len(CandidateIndexers(deployment_indexers, Unwrap(deployment))) = 2
     /\ config.indexer_selection_retry_limit >= 2
     /\ Len(observations) >= 1
     /\ observations[1].kind = "IndexingBehind"
     /\ Len(requests) >= 2)
        => /\ requests[2].indexer # requests[1].indexer
           /\ (Len(observations) >= 2 /\ observations[2].kind = "Success")
                => /\ pc = "done"
                   /\ Unwrap(result).ok
                   /\ Cardinality(Kinds("IndexingBehind")) = 1

\* C9: a query by name whose name the directory does not list (or that finds
\* no directory yet) ends with SubgraphNotFound with nothing started; a query
\* by deployment id never ends with SubgraphNotFound.
C9_SubgraphNotFound ==
    /\ (/\ pc # "execute_query"
        /\ query.subgraph.kind = "Name"
        /\ \/ current_deployments = None
           \/ query.subgraph.id \notin DOMAIN Unwrap(current_deployments))
        => /\ pc = "done"
           /\ result = Some(Err("SubgraphNotFound"))
           /\ NothingStarted
    /\ query.subgraph.kind = "Deployment"
        => result # Some(Err("SubgraphNotFound"))

\* A directory that lists another name only.
C9_Witness ==
    /\ result = Some(Err("SubgraphNotFound"))
    /\ current_deployments # None
    /\ query.api_key_deployments # {}

\* The deployment a query resolves to, for the queries that resolve.
Resolves ==
    \/ query.subgraph.kind = "Deployment"
    \/ /\ current_deployments # None
       /\ query.subgraph.id \in DOMAIN Unwrap(current_deployments)
Resolved ==
    IF query.subgraph.kind = "Deployment" THEN query.subgraph.id
    ELSE Unwrap(current_deployments)[query.subgraph.id]

\* C10: once the deployment is resolved, a non-empty permit list without it
\* ends the request with APIKeySubgraphNotAuthorized and nothing started; an
\* empty list, or one with the deployment, passes the request on to
\* execute_deployment_query for that deployment, which runs a selection round
\* as soon as the retry limit allows one.
C10_Authorization ==
    (pc # "execute_query" /\ Resolves)
        => IF /\ query.api_key_deployments # {}
              /\ Resolved \notin query.api_key_deployments
           THEN /\ pc = "done"
                /\ result = Some(Err("APIKeySubgraphNotAuthorized"))
                /\ deployment = None
                /\ NothingStarted
           ELSE /\ deployment = Some(Resolved)
                /\ result \notin {Some(Err("APIKeySubgraphNotAuthorized")),
                                  Some(Err("SubgraphNotFound"))}
                /\ (/\ pc \notin {"execute_deployment_query", "loop"}
                    /\ config.indexer_selection_retry_limit >= 1)
                     => round >= 1

\* A name resolved through the directory, then refused by the permit list.
C10_Witness ==
    /\ result = Some(Err("APIKeySubgraphNotAuthorized"))
    /\ query.subgraph.kind = "Name"

\* C11: a BadInput of the selection engine ends the request at once with
\* MalformedQuery: the round issued no indexer request and no block
\* resolution, every observation belongs to a request of an earlier round,
\* and the request is over; MalformedQuery has no other origin.
C11_BadInputEndsRequest ==
    /\ selection_result = Some("BadInput")
        => /\ pc = "done"
           /\ result = Some(Err("MalformedQuery"))
           /\ round = Len(requests) + block_requests + 1
           /\ Len(observations) = Len(requests)
           /\ indexer_query = None
           /\ indexer_result = None
    /\ result = Some(Err("MalformedQuery"))
        => selection_result = Some("BadInput")

\* BadInput in the second round, after an indexer request in the first.
C11_Witness ==
    /\ selection_result = Some("BadInput")
    /\ round = 2
    /\ Len(requests) = 1
    /\ Len(observations) = 1

\* The number of entries of u equal to b.
Count(b, u) == Cardinality({i \in 1..Len(u) : u[i] = b})

\* C12: on MissingBlocks the round asks the block resolver once, for a
\* non-empty list, before any indexer request; when the resolver has answered,
\* either entries remain and the request ends with MissingBlocks carrying
\* entries of the list asked for, or none remain and the loop goes back to
\* selection.
C12_MissingBlocksResolved ==
    [][/\ (pc = "select_indexer" /\ pc' = "resolve_blocks")
            => /\ selection_result' = Some("MissingBlocks")
               /\ block_requests' = block_requests + 1
               /\ requests' = requests
               /\ unresolved' # <<>>
       /\ (pc = "resolve_blocks" /\ pc' # "resolve_blocks")
            => /\ block_requests' = block_requests
               /\ requests' = requests
               /\ \/ /\ pc' = "loop"
                     /\ result' = None
                  \/ /\ pc' = "done"
                     /\ result' # None
                     /\ Unwrap(result').error = "MissingBlocks"
                     /\ Unwrap(result').unresolved # <<>>
                     /\ \A b \in UnresolvedBlock :
                           Count(b, Unwrap(result').unresolved)
                               <= Count(b, unresolved)]_vars

\* C13: whatever heads the block resolver returns, the request does not
\* abort: it is running, or it is over with a value returned.
C13_ResolverErrorsDegrade ==
    /\ pc # "panicked"
    /\ pc = "done" => result # None

\* C14: with no value published for the deployment directory and for the
\* indexer directory, a request that is allowed by its key and that the
\* selection engine did not answer with BadInput or MissingBlocks ends with
\* NoIndexerSelected, whether it names its subgraph or gives a deployment id.
C14_ColdStart ==
    (/\ current_deployments = None
     /\ deployment_indexers = None
     /\ query.api_key_deployments = {}
     /\ block_requests = 0
     /\ selection_result # Some("BadInput")
     /\ pc = "done")
        => result = NoIndexerSelected

\* C15: the create_transfer task is started in the step that issues the
\* indexer request of the round, which does not wait for it; when the task
\* ends, with either outcome, nothing of the request changes; and the
\* request's next step is possible with the task still running.
C15_TransferIndependent ==
    [][/\ transfers' > transfers
            => /\ transfers' = transfers + 1
               /\ pc = "select_indexer"
               /\ pc' = "query_indexer"
               /\ Unwrap(indexer_query').low_collateral_warning
               /\ Len(requests') = Len(requests) + 1
       /\ transfers' < transfers
            => UNCHANGED <<pc, deployment, indexers, round, selection_result,
                           indexer_query, indexer_result, unresolved, requests,
                           block_requests, observations, result>>
       /\ (transfers > 0 /\ pc = "query_indexer") => ENABLED IndexerResponse
       /\ (transfers > 0 /\ pc = "loop") => ENABLED LoopHead]_vars

\* A request that ended with a response while its transfer task was running.
C15_Witness ==
    /\ pc = "done"
    /\ result # None
    /\ Unwrap(result).ok
    /\ transfers > 0

\* ---- the result of select_indexers, while the test holds it
Candidates == Range(Unwrap(request).indexers)
Status(a) == Unwrap(topology).status[a]
Selections == Unwrap(selection).selections
Errors == Unwrap(selection).errors
Selected == {Selections[i].indexer : i \in 1..Len(Selections)}
Reasons(a) == {e \in DOMAIN Errors : a \in Errors[e]}
WithoutError == {a \in Candidates : Reasons(a) = {}}

\* C16: the fees of the selections returned by select_indexers sum to at
\* most params.budget.
C16_SelectedFeesWithinBudget ==
    selection # None
        => /\ FeeSum(Selections) <= Unwrap(request).budget
           /\ \A i \in 1..Len(Selections) :
                 Selections[i].fee = Status(Selections[i].indexer).fee

\* Two candidates without an error and room in the limit, one of them left
\* out because its fee would take the sum over the budget.
C16_Witness ==
    /\ selection # None
    /\ Cardinality(WithoutError) = 2
    /\ Unwrap(request).selection_limit >= 2
    /\ Len(Selections) = 1
    /\ FeeSum(Selections) > 0

C18_SurvivorSelected ==
    selection # None
        => /\ WithoutError # {} => Selections # <<>>
           /\ Selections = <<>>
                => ErrorCount(Errors) = Len(Unwrap(request).indexers)

\* One candidate disqualified, the other selected.
C18_Witness ==
    /\ selection # None
    /\ Cardinality(Candidates) = 2
    /\ Cardinality(WithoutError) = 1
    /\ Selected = WithoutError

\* C19: the selection_limit of a request is in 1..SELECTION_LIMIT, and the
\* result holds at most min(selection_limit, SELECTION_LIMIT) selections, at
\* most as many as there are candidates without an error, and no indexer
\* twice.
C19_SelectionsWithinLimit ==
    /\ request # None => Unwrap(request).selection_limit \in 1..SELECTION_LIMIT
    /\ selection # None
        => /\ Len(Selections)
                 <= Min(Unwrap(request).selection_limit, SELECTION_LIMIT)
           /\ Len(Selections) <= Cardinality(WithoutError)
           /\ Cardinality(Selected) = Len(Selections)

\* Two candidates that fit the budget together, and a limit of one.
C19_Witness ==
    /\ selection # None
    /\ Unwrap(request).selection_limit = 1
    /\ Cardinality(WithoutError) = 2
    /\ \A a \in Candidates : Status(a).fee = 0
    /\ Len(Selections) = 1

C29_NoSelectionEndsRequest ==
    (/\ selection_result # None
     /\ Unwrap(selection_result) \in
           {"None", "MissingNetworkParams", "BadIndexer", "InsufficientCollateral"})
        => /\ pc = "done"
           /\ result = NoIndexerSelected
           /\ round = Len(requests) + block_requests + 1
           /\ Len(observations) = Len(requests)
           /\ indexer_query = None
           /\ indexer_result = None

\* The first round of two reports insufficient collateral.
C29_Witness ==
    /\ selection_result = Some("InsufficientCollateral")
    /\ config.indexer_selection_retry_limit = 2
    /\ round = 1
    /\ result = NoIndexerSelected

\* C30: every round counts against the retry limit, a round that resolved
\* blocks and a round answered with the behind marker included: indexer
\* requests and block resolutions together are at most the rounds started,
\* which are at most indexer_selection_retry_limit; with a limit of 1 a
\* request whose first selection reported MissingBlocks, all resolved, ends
\* with NoIndexerSelected and no indexer queried.
C30_EveryRoundCounts ==
    /\ Len(requests) + block_requests <= round
    /\ round <= config.indexer_selection_retry_limit
    /\ (/\ config.indexer_selection_retry_limit = 1
        /\ block_requests = 1
        /\ pc \in {"loop", "done"}
        /\ result # None => Unwrap(result).error # "MissingBlocks")
        => /\ requests = <<>>
           /\ pc = "done" => result = NoIndexerSelected

\* A limit of 1 used up by a block resolution that resolved everything.
C30_Witness ==
    /\ config.indexer_selection_retry_limit = 1
    /\ block_requests = 1
    /\ requests = <<>>
    /\ pc = "done"
    /\ result = NoIndexerSelected

\* ---- UDecimal<P>

\* The grammar of a decimal: digits, at most one point, digits; one digit at
\* least.
WellFormed(s) ==
    LET dots == {i \in 1..Len(s) : s[i] = "."}
    IN  /\ Cardinality(dots) <= 1
        /\ \A i \in (1..Len(s)) \ dots : ascii_digit(s[i])
        /\ \E i \in 1..Len(s) : ascii_digit(s[i])

\* The integer digits followed by the first p fractional digits, as a number:
\* the fraction is scaled to p digits and what lies beyond is cut off.
Truncated(p, s) ==
    LET at == DotPosition(s)
        int == SubSeq(s, 1, at)
        frac == SubSeq(s, at + 2, Len(s))
    IN  DecValue(int) * exp10(p) + (DecValue(frac) * exp10(p)) \div exp10(Len(frac))

\* C25: parsing the string that Display renders for a value gives the value
\* back, with the same internal integer, at every precision.
C25_RoundTrip ==
    (decimal.pc = "done" /\ decimal.reparsed # None)
        => Unwrap(decimal.reparsed) = UDecimal(Unwrap(decimal.internal))

\* The value 0.10 at precision 2 is rendered as "0.1" and parsed back.
C25_Witness ==
    /\ decimal.pc = "done"
    /\ decimal.p = 2
    /\ decimal.internal = Some(10)
    /\ decimal.rendered = Some(<<"0", ".", "1">>)
    /\ decimal.reparsed = Some(UDecimal(10))

\* C26: parsing a well-formed string truncates the fractional digits beyond
\* the P-th, never rounds them, and pads a shorter fraction with zeros.
C26_ParseTruncates ==
    (decimal.pc # "idle" /\ decimal.parsed # None /\ WellFormed(Unwrap(decimal.s)))
        => Unwrap(decimal.parsed) = UDecimal(Truncated(decimal.p, Unwrap(decimal.s)))

\* "0.0000012" at precision 6 is 1: the seventh fractional digit is dropped.
C26_Witness ==
    /\ decimal.pc # "idle"
    /\ decimal.p = 6
    /\ decimal.s = Some(<<"0", ".", "0", "0", "0", "0", "0", "1", "2">>)
    /\ decimal.parsed = Some(UDecimal(1))

\* C27: from_str returns InvalidInput for every input that is not a
\* well-formed decimal, at every precision.
C27_MalformedRejected ==
    (decimal.pc # "idle" /\ decimal.parsed # None /\ ~WellFormed(Unwrap(decimal.s)))
        => Unwrap(decimal.parsed) = InvalidInput

\* ---- the IPFS client

\* The calls whose HTTP request is in progress.
InProgress == {c \in Calls : ipfs.calls[c].pc \in {"send", "text"}}

\* C28: at most max_concurrent requests are in progress at any time, and a
\* call has its request in progress only while it holds a permit; the
\* permits held and the permits free add up to max_concurrent.
C28_RequestsWithinPermits ==
    ipfs.pc = "run"
        => /\ Cardinality(InProgress) <= ipfs.max_concurrent
           /\ \A c \in InProgress : ipfs.calls[c].permit
           /\ ipfs.permits + Cardinality({c \in Calls : ipfs.calls[c].permit})
                  = ipfs.max_concurrent

\* Two permits, two requests in progress and a third call waiting.
C28_Witness ==
    /\ ipfs.pc = "run"
    /\ ipfs.max_concurrent = 2
    /\ ipfs.permits = 0
    /\ Cardinality(InProgress) = 2
    /\ \E c \in Calls : ipfs.calls[c].pc = "acquire"

\* ---- the update queue, the actor and the reader

\* The updates folded in order over the default state.
RECURSIVE Fold(_)
Fold(updates) ==
    IF updates = <<>>
    THEN DefaultState
    ELSE apply(Fold(SubSeq(updates, 1, Len(updates) - 1)), updates[Len(updates)])

\* The value of the last update of a kind, if one was written.
LastValue(updates, kind) ==
    LET at == {i \in 1..Len(updates) : updates[i].kind = kind}
    IN  IF at = {}
        THEN None
        ELSE Some(updates[CHOOSE i \in at : \A j \in at : j <= i].value)

\* C23: the snapshot a reader holds is the state before or after a batch,
\* never a partially applied one, and its select_indexers call works on
\* that snapshot whatever is applied or published while it runs.
C23_SnapshotsAtomicReadersIsolated ==
    (actor.pc = "run" /\ actor.reader # "idle")
        => /\ \E k \in actor.boundaries :
                /\ k <= actor.applied
                /\ Unwrap(actor.snapshot) = Fold(SubSeq(actor.written, 1, k))
           /\ actor.reader = "done"
                => actor.result = Some(Unwrap(actor.snapshot).indexers)

\* The reader selected on the snapshot it held, with indexer 1, while an
\* update that removes the indexer was applied and published.
C23_Witness ==
    /\ actor.pc = "run"
    /\ actor.reader = "done"
    /\ actor.snapshot = Some(Fold(<<[kind |-> "Indexers", value |-> <<1>>]>>))
    /\ actor.result = Some(<<1>>)
    /\ actor.published.indexers = <<>>
    /\ actor.applied = 2

\* C24: once everything written has been drained, the published state is
\* the fold of the written updates in order: each network parameter has the
\* last value written and the indexers are those of the last Indexers
\* update.
C24_UpdatesApplyInOrder ==
    (/\ actor.pc = "run"
     /\ actor.queue = <<>>
     /\ actor.batch = <<>>
     /\ ~actor.dirty)
        => /\ actor.published = Fold(actor.written)
           /\ actor.published.usd_to_grt_conversion
                  = LastValue(actor.written, "USDToGRTConversion")
           /\ actor.published.slashing_percentage
                  = LastValue(actor.written, "SlashingPercentage")
           /\ LET last == LastValue(actor.written, "Indexers")
              IN  actor.published.indexers
                      = IF last = None THEN DefaultState.indexers ELSE Unwrap(last)

\* Two exchange rates and a set of indexers were written, drained and
\* published: the second rate holds.
C24_Witness ==
    /\ actor.pc = "run"
    /\ actor.queue = <<>>
    /\ actor.batch = <<>>
    /\ ~actor.dirty
    /\ actor.written = <<[kind |-> "USDToGRTConversion", value |-> 1],
                         [kind |-> "USDToGRTConversion", value |-> 2],
                         [kind |-> "Indexers", value |-> <<1>>]>>
    /\ actor.published.usd_to_grt_conversion = Some(2)
    /\ actor.published.indexers = <<1>>

\* ---- select_indexers on candidates of known utility

\* The case of the budget cap: select_indexers has returned for two
\* error-free candidates of equal utility whose fees are 0.0007 and 0.0005
\* GRT, under a budget of 0.001 GRT.
BudgetCapCase ==
    /\ scenario.pc = "done"
    /\ scenario.input.budget = 10
    /\ Len(scenario.input.indexers) = 2
    /\ DOMAIN Unwrap(scenario.result).errors = {}
    /\ scenario.input.status[1].utility = scenario.input.status[2].utility
    /\ {scenario.input.status[1].fee, scenario.input.status[2].fee} = {5, 7}

\* The selections of the call.
ScenarioSelections == Unwrap(scenario.result).selections

\* C21: select_indexers is deterministic: the result of a call is the one
\* result that the snapshot, the candidates, the parameters and the
\* selection limit admit, with its selections in one order.
C21_SelectionDeterministic ==
    scenario.pc = "done"
        => \A r \in select_sorted(scenario.input) : r = Unwrap(scenario.result)

\* Two candidates of equal utility and equal fee, of which only one fits the
\* budget: the address decides, and the first is selected.
C21_Witness ==
    /\ scenario.pc = "done"
    /\ Len(scenario.input.indexers) = 2
    /\ DOMAIN Unwrap(scenario.result).errors = {}
    /\ scenario.input.status[1].utility = scenario.input.status[2].utility
    /\ scenario.input.status[1].fee = 7
    /\ scenario.input.status[2].fee = 7
    /\ scenario.input.selection_limit = 2
    /\ ScenarioSelections = <<[indexer |-> 1, fee |-> 7]>>

C31_RoundsSequential ==
    /\ (indexer_query # None) <=> (pc = "query_indexer")
    /\ pc = "query_indexer"
          => /\ Len(observations) = Len(requests) - 1
             /\ Last(requests).indexer = Unwrap(indexer_query).indexer
    /\ pc = "select_indexer"
          => /\ Len(observations) = Len(requests)
             /\ \A k \in 1..Len(requests) :
                   observations[k].indexer = requests[k].indexer

\* The selection of the second round starts after the attempt of the first
\* was observed as behind.
C31_Witness ==
    /\ pc = "select_indexer"
    /\ round = 2
    /\ Len(requests) = 1
    /\ observations = <<IndexingBehind(requests[1].indexer)>>

\* ---- the candidate list of a request

\* The step of the request that reads the candidate list.
ReadsCandidates == pc = "execute_deployment_query" /\ pc' = "loop"

\* The step of the request that drops a candidate: a transport failure of
\* the outstanding request, observed as a penalized failure.
DropsCandidate ==
    /\ pc = "query_indexer"
    /\ indexer_result' # None
    /\ TransportFailed(Unwrap(indexer_result'))
    /\ observations' = Append(observations, Failure(Unwrap(indexer_query).indexer, TRUE))
    /\ Len(indexers') = Len(indexers) - 1
    /\ \E i \in 1..Len(indexers) :
          /\ indexers[i] = Unwrap(indexer_query).indexer
          /\ indexers' = SubSeq(indexers, 1, i - 1) \o SubSeq(indexers, i + 1, Len(indexers))

\* C32: the candidate list is read once, from the map published when
\* execute_deployment_query starts; a map published later changes nothing
\* of the request; the list never grows, and it changes only by the removal
\* of the failed indexer on a transport failure.
C32_CandidatesReadOnce ==
    [][/\ ReadsCandidates
          => indexers' = CandidateIndexers(deployment_indexers, Unwrap(deployment))
       /\ deployment_indexers' # deployment_indexers
          => UNCHANGED <<pc, deployment, indexers, round, selection_result,
                         indexer_query, indexer_result, unresolved, requests,
                         block_requests, observations, transfers, result>>
       /\ ~ReadsCandidates
          => \/ indexers' = indexers
             \/ DropsCandidate
       /\ (indexer_result' # indexer_result /\ indexer_result' # None
              /\ TransportFailed(Unwrap(indexer_result')) /\ pc' # "panicked")
          => DropsCandidate]_vars

\* The request runs on the two candidates it read although the map now
\* published lists none, and has lost one of them to a transport failure.
C32_Witness ==
    /\ pc = "select_indexer"
    /\ deployment_indexers = Some([d \in {"QmA"} |-> <<>>])
    /\ Len(indexers) = 1
    /\ Len(requests) = 1
    /\ observations = <<Failure(requests[1].indexer, TRUE)>>
    /\ requests[1].indexer \notin Range(indexers)

\* ---- the end of a request

\* The errors execute_query may return, as the claim lists them.
ReturnedErrors ==
    {"SubgraphNotFound", "APIKeySubgraphNotAuthorized", "MalformedQuery",
     "MissingBlocks", "NoIndexerSelected"}

\* C33: a request whose calls all return eventually returns one result, a
\* QueryResponse or one of the listed errors, whatever the retry limit.
C33_EventuallyReturns ==
    <>(/\ pc = "done"
       /\ result # None
       /\ Unwrap(result).ok \/ Unwrap(result).error \in ReturnedErrors)

\* ---- the rendering of UDecimal<P>

\* A run of digits without its trailing zeros.
RECURSIVE StripZeros(_)
StripZeros(digits) ==
    IF digits # <<>> /\ digits[Len(digits)] = "0"
    THEN StripZeros(SubSeq(digits, 1, Len(digits) - 1))
    ELSE digits

\* A run of digits with zeros in front, up to p digits.
PadLeft(digits, p) ==
    [i \in 1..(p - Len(digits)) |-> "0"] \o digits

\* The canonical writing of the value internal / 10^p.
Canonical(p, internal) ==
    LET int == internal \div exp10(p)
        frac == internal % exp10(p)
    IN  IF frac = 0
        THEN to_string(int)
        ELSE to_string(int) \o <<".">> \o StripZeros(PadLeft(to_string(frac), p))

\* C34: Display is canonical: the integer part ("0" when there is none),
\* then, only for a fraction that is not zero, the point and the fraction
\* padded to P digits and stripped of its trailing zeros; zero is "0"; the
\* output never ends in a point or in a fractional zero.
C34_DisplayCanonical ==
    (decimal.pc # "idle" /\ decimal.rendered # None)
        => LET r == Unwrap(decimal.rendered)
               e == Unwrap(decimal.internal)
           IN  /\ r = Canonical(decimal.p, e)
               /\ e = 0 => r = <<"0">>
               /\ r[Len(r)] # "."
               /\ (\E i \in 1..Len(r) : r[i] = ".") => r[Len(r)] # "0"

\* "100.000" at precision 6 is rendered "100".
C34_Witness ==
    /\ decimal.pc # "idle"
    /\ decimal.p = 6
    /\ decimal.s = Some(<<"1", "0", "0", ".", "0", "0", "0">>)
    /\ decimal.internal = Some(100000000)
    /\ decimal.rendered = Some(<<"1", "0", "0">>)

\* ---- multiplication and division of UDecimal<P>

\* C35: multiplication and division preserve the precision: when 10^P and
\* the intermediate product (a.internal * b.internal, or a.internal * 10^P)
\* fit the storage, a * b is floor(a.internal * b.internal / 10^P) and, for b
\* other than zero, a / b is floor(a.internal * 10^P / b.internal).
C35_MulDivPreservePrecision ==
    /\ (decimal.pc = "multiplied"
          /\ exp10(decimal.p) <= StorageMax
          /\ decimal.a * decimal.b <= StorageMax)
          => \E q \in Operands :
                /\ decimal.out = Some(UDecimal(q))
                /\ q * exp10(decimal.p) <= decimal.a * decimal.b
                /\ decimal.a * decimal.b < (q + 1) * exp10(decimal.p)
    /\ (decimal.pc = "divided"
          /\ decimal.b # 0
          /\ exp10(decimal.p) <= StorageMax
          /\ decimal.a * exp10(decimal.p) <= StorageMax)
          => \E q \in Operands :
                /\ decimal.out = Some(UDecimal(q))
                /\ q * decimal.b <= decimal.a * exp10(decimal.p)
                /\ decimal.a * exp10(decimal.p) < (q + 1) * decimal.b

\* 2.5 * 0.2 at precision 1: the product 50 fits the storage and gives
\* the internal value 5, which is 0.5.
C35_Witness ==
    /\ decimal.pc = "multiplied"
    /\ decimal.p = 1
    /\ decimal.a = 25
    /\ decimal.b = 2
    /\ decimal.out = Some(UDecimal(5))

\* C35 as stated: the same results whenever the exact result fits the
\* storage.
C35_ExactResultFits ==
    /\ (decimal.pc = "multiplied"
          /\ exp10(decimal.p) <= StorageMax
          /\ (decimal.a * decimal.b) \div exp10(decimal.p) <= StorageMax)
          => decimal.out = Some(UDecimal((decimal.a * decimal.b) \div exp10(decimal.p)))
    /\ (decimal.pc = "divided"
          /\ decimal.b # 0
          /\ exp10(decimal.p) <= StorageMax
          /\ (decimal.a * exp10(decimal.p)) \div decimal.b <= StorageMax)
          => decimal.out = Some(UDecimal((decimal.a * exp10(decimal.p)) \div decimal.b))

\* ---- the subscriptions poller

\* The polls that returned at least one subscription.
GoodPolls ==
    {i \in 1..Len(subscriptions.polls) :
        subscriptions.polls[i].ok /\ subscriptions.polls[i].response # <<>>}

\* The response of the last of them.
LastGoodResponse ==
    subscriptions.polls[CHOOSE i \in GoodPolls : \A j \in GoodPolls : j <= i].response

\* C36: a poll that fails or returns no subscription publishes nothing: the
\* published map is the one of the last poll that returned a subscription,
\* and no map is published while there was none.
C36_FailedPollPublishesNothing ==
    subscriptions.pc = "run"
        => /\ GoodPolls = {} => subscriptions.published = None
           /\ GoodPolls # {}
                => /\ subscriptions.published # None
                   /\ DOMAIN Unwrap(subscriptions.published)
                          = {LastGoodResponse[i].user : i \in 1..Len(LastGoodResponse)}
                   /\ \A i \in 1..Len(LastGoodResponse) :
                         LastGoodResponse[i].authorized_signers
                             \subseteq Unwrap(subscriptions.published)[LastGoodResponse[i].user].signers

\* The subscription of user 1 stays published after a poll that returned no
\* subscription at all.
C36_Witness ==
    /\ subscriptions.pc = "run"
    /\ Len(subscriptions.polls) = 2
    /\ subscriptions.polls[1].ok
    /\ subscriptions.polls[1].response = <<[user |-> 1, authorized_signers |-> {}, rate |-> 1]>>
    /\ subscriptions.polls[2].ok
    /\ subscriptions.polls[2].response = <<>>
    /\ subscriptions.published # None
    /\ DOMAIN Unwrap(subscriptions.published) = {1}

\* C37: in a published map the signers of a user are the user's own address
\* and the authorized signers reported for the user, and the map holds the
\* users of the poll that wrote it and no others.
C37_SignersIncludeUser ==
    (subscriptions.pc = "run" /\ subscriptions.published # None)
        => LET map == Unwrap(subscriptions.published)
           IN  /\ \A u \in DOMAIN map : u \in map[u].signers
               /\ \A i \in 1..Len(LastGoodResponse) :
                     LET sub == LastGoodResponse[i]
                     IN  /\ sub.user \in DOMAIN map
                         /\ map[sub.user].signers = sub.authorized_signers \cup {sub.user}
               /\ \A u \in DOMAIN map :
                     \E i \in 1..Len(LastGoodResponse) : LastGoodResponse[i].user = u

\* A poll with user 2 alone replaced the map that held user 1: user 1 is
\* gone, and user 2 signs with the own address and with address 3.
C37_Witness ==
    /\ subscriptions.pc = "run"
    /\ Len(subscriptions.polls) = 2
    /\ subscriptions.polls[1].response = <<[user |-> 1, authorized_signers |-> {}, rate |-> 1]>>
    /\ subscriptions.polls[2].response = <<[user |-> 2, authorized_signers |-> {3}, rate |-> 1]>>
    /\ subscriptions.published
           = Some([u \in {2} |-> [signers |-> {2, 3}, rate |-> 1]])

\* ---- the permits of the IPFS client over time

\* C38: a call holds its permit from the sending of the request to its
\* return and has given it back once it returned, with a result or an error:
\* while no call is in progress every permit is free.  With at least one
\* permit, a call waiting for the semaphore eventually holds a permit.
C38_PermitsReturned ==
    /\ [](ipfs.pc = "run"
            => /\ \A c \in Calls :
                     /\ ipfs.calls[c].pc \in {"send", "text"} => ipfs.calls[c].permit
                     /\ ipfs.calls[c].pc = "done"
                            => ~ipfs.calls[c].permit /\ ipfs.calls[c].result # None
               /\ (\A c \in Calls : ipfs.calls[c].pc \notin {"send", "text"})
                     => ipfs.permits = ipfs.max_concurrent)
    /\ \A c \in Calls :
          (ipfs.pc = "run" /\ ipfs.max_concurrent >= 1 /\ ipfs.calls[c].pc = "acquire")
              ~> (ipfs.pc = "run" /\ ipfs.calls[c].permit)

\* One permit: a call returned an error and gave the permit back, a second
\* call took it and has its request in progress, a third one waits.
C38_Witness ==
    /\ ipfs.pc = "run"
    /\ ipfs.max_concurrent = 1
    /\ ipfs.permits = 0
    /\ \E a, b, c \in Calls :
          /\ ipfs.calls[a].pc = "done" /\ ipfs.calls[a].result = Some("Err")
          /\ ipfs.calls[b].pc = "send" /\ ipfs.calls[b].permit
          /\ ipfs.calls[c].pc = "acquire"

\* ---- the selection-error telemetry

\* The kind that each error code stands for.
KindOfCode ==
    <<"BadInput", "MissingNetworkParams", "MissingBlock", "BadIndexer",
      "NoAllocation", "FeesTooHigh">>

\* C39: every record built for a selection error carries a code in 1..6, and
\* the code is the one of the error's kind, BadInput 1, MissingNetworkParams
\* 2, MissingBlock 3, BadIndexer 4, NoAllocation 5, FeesTooHigh 6: the kind
\* is recovered from the code.
C39_ErrorCodeInjective ==
    telemetry.pc = "built"
        => /\ Unwrap(telemetry.record).error_code \in 1..6
           /\ KindOfCode[Unwrap(telemetry.record).error_code] = telemetry.err.kind

\* A record built for FeesTooHigh, with the code 6.
C39_Witness ==
    /\ telemetry.pc = "built"
    /\ telemetry.err.kind = "FeesTooHigh"
    /\ Unwrap(telemetry.record).error_code = 6

====
